---- MODULE Spec2Model ----
(***************************************************************************)
(* Model of the inequality metrics engine of src/src/metrics.py.           *)
(*                                                                         *)
(* A sample is a Python list of numbers.  Every metric is a pure function  *)
(* of the sample; the state machine builds a sample element by element and *)
(* calls one metric on it, keeping the outcome (a returned value or a      *)
(* raised exception) in `result`.                                          *)
(*                                                                         *)
(* Numbers: the sample values are integers, and every float the code       *)
(* computes from them with + - * / is kept as an exact fraction            *)
(* [n |-> numerator, d |-> denominator], d > 0.  The comparisons the code  *)
(* makes on these floats (<=, >=, ==, the clamp) agree with the exact ones *)
(* on the samples enumerated here.  Values that need log or exp (Theil,    *)
(* Atkinson) are kept as the formula's arguments, see theil_index.         *)
(***************************************************************************)
EXTENDS Integers, Sequences, FiniteSets, TLC

VARIABLES values, op, percentiles, num_points, epsilon, result,
          arg, fn, ret

\* The metrics engine: the sample, the metric called on it with its
\* parameters, and the outcome.
metricVars == <<values, op, percentiles, num_points, epsilon, result>>

\* The cleaning pipeline (src/src/data_cleaning.py, src/utils/data_models.py):
\* the argument the caller builds, the function called on it, and what it
\* returned.
dataVars == <<arg, fn, ret>>

vars == <<values, op, percentiles, num_points, epsilon, result, arg, fn, ret>>

(***************************************************************************)
(* Bounds of the model.                                                    *)
(***************************************************************************)
\* Longest sample.
MaxLen == 11
\* The first FreeLen elements of a sample come in any order; the ones after
\* them are appended in non-decreasing order.
FreeLen == 2
\* Largest num_points handed to lorenz_curve_data.
MaxPoints == 5

\* The numbers a sample is made of: a negative, zero and three positives.
SampleValues == {-1, 0, 1, 2, 4}

\* The num_points arguments tried.
NumPointsValues == 1..MaxPoints

\* The epsilon arguments tried.
EpsilonValues == {-1, 0, 1, 2}

(***************************************************************************)
(* Fractions.                                                              *)
(***************************************************************************)
Rat(a, b) == [n |-> a, d |-> b]

Zero == Rat(0, 1)

One == Rat(1, 1)

\* a / b for two fractions, b # 0 (numpy float division).
RatDiv(a, b) ==
    IF b.n > 0 THEN Rat(a.n * b.d, a.d * b.n) ELSE Rat(-(a.n * b.d), a.d * (-b.n))

\* 1 - a
OneMinus(a) == Rat(a.d - a.n, a.d)

RatLeq(a, b) == a.n * b.d <= b.n * a.d

RatLess(a, b) == a.n * b.d < b.n * a.d

RatEq(a, b) == a.n * b.d = b.n * a.d

(***************************************************************************)
(* Outcomes of a call: a returned value or a raised exception.             *)
(***************************************************************************)
Ok(v) == [ok |-> TRUE, value |-> v]

Raise(cls, m) == [ok |-> FALSE, exc |-> cls, msg |-> m]

NoResult == [ok |-> FALSE, exc |-> "none", msg |-> "not called"]

EmptyInputError == Raise("ValueError", "Values list cannot be empty")

NoPositiveValuesError == Raise("ValueError", "No positive values found")

InsufficientDataError ==
    Raise("ValueError", "Need at least 10 values to calculate Palma ratio")

InvalidParameterError == Raise("ValueError", "Epsilon must be positive")

TotalIncomeZeroError == Raise("ValueError", "Total income cannot be zero")

(***************************************************************************)
(* numpy helpers.                                                          *)
(***************************************************************************)
\* The filter written values >= 0: zeros pass.
NonNegativeOnly(s) == SelectSeq(s, LAMBDA v : v >= 0)

\* values[values > 0]
PositiveOnly(s) == SelectSeq(s, LAMBDA v : v > 0)

RECURSIVE Sum(_)
\* np.sum
Sum(s) == IF s = <<>> THEN 0 ELSE Head(s) + Sum(Tail(s))

\* s with x put at its place, s ascending
RECURSIVE Insert(_, _)
Insert(s, x) ==
    IF s = <<>> THEN <<x>>
    ELSE IF x <= Head(s) THEN <<x>> \o s
    ELSE <<Head(s)>> \o Insert(Tail(s), x)

RECURSIVE Sort(_)
\* np.sort: ascending
Sort(s) == IF s = <<>> THEN <<>> ELSE Insert(Sort(Tail(s)), Head(s))

\* np.sum(np.arange(1, n + 1) * values)
RECURSIVE RankWeightedSum(_)
RankWeightedSum(s) ==
    IF s = <<>> THEN 0
    ELSE Len(s) * s[Len(s)] + RankWeightedSum(SubSeq(s, 1, Len(s) - 1))

\* np.all(values == values[0])
AllEqual(s) == \A i \in 1..Len(s) : s[i] = s[1]

\* max(0.0, min(1.0, x))
Clamp01(x) ==
    LET m == IF RatLess(x, One) THEN x ELSE One
    IN  IF RatLess(Zero, m) THEN m ELSE Zero

\* np.percentile(s, q) of an ascending s, 0 <= q <= 100: linear interpolation
\* between the closest ranks, at the virtual index (n - 1) * q / 100.
Percentile(s, q) ==
    LET n    == Len(s)
        virt == (n - 1) * q
        lo   == virt \div 100
        rem  == virt % 100
        hi   == IF lo + 1 < n THEN lo + 1 ELSE n - 1
        a    == s[lo + 1]
        b    == s[hi + 1]
    IN  Rat(a * 100 + (b - a) * rem, 100)

\* np.sum(values[values <= t])
SumLeq(s, t) == Sum(SelectSeq(s, LAMBDA v : RatLeq(Rat(v, 1), t)))

\* The sum written with the strict values > t.
SumGt(s, t) == Sum(SelectSeq(s, LAMBDA v : RatLess(t, Rat(v, 1))))

\* np.sum(values[values >= t])
SumGeq(s, t) == Sum(SelectSeq(s, LAMBDA v : RatLeq(t, Rat(v, 1))))

(***************************************************************************)
(* gini_coefficient                                                        *)
(***************************************************************************)
\* gini_coefficient applying the rank formula to the filtered values as
\* they come: neither sorted nor clamped.
gini_coefficient_unsorted(vs) ==
    IF vs = <<>> THEN EmptyInputError
    ELSE LET pos == PositiveOnly(vs) IN
    IF Len(pos) = 0 THEN NoPositiveValuesError
    ELSE LET s == pos
             n == Len(s)
         IN
    IF n = 1 THEN Ok(Zero)
    ELSE IF AllEqual(s) THEN Ok(Zero)
    ELSE IF Len(SelectSeq(s, LAMBDA v : v > 0)) = 1 /\ Len(s) > 1 THEN Ok(One)
    ELSE LET numerator   == 2 * RankWeightedSum(s) - (n + 1) * Sum(s)
             denominator == n * Sum(s)
         IN  Ok(Rat(numerator, denominator))

\* gini_coefficient taking n = len(values) before the filter.
gini_coefficient_early_n(vs) ==
    IF vs = <<>> THEN EmptyInputError
    ELSE LET pos == PositiveOnly(vs) IN
    IF Len(pos) = 0 THEN NoPositiveValuesError
    ELSE LET s == Sort(pos)
             n == Len(vs)
         IN
    IF n = 1 THEN Ok(Zero)
    ELSE IF AllEqual(s) THEN Ok(Zero)
    ELSE IF Len(SelectSeq(s, LAMBDA v : v > 0)) = 1 /\ Len(s) > 1 THEN Ok(One)
    ELSE LET numerator   == 2 * RankWeightedSum(s) - (n + 1) * Sum(s)
             denominator == n * Sum(s)
         IN  Ok(Clamp01(Rat(numerator, denominator)))

\* gini_coefficient testing the single-non-zero-value case first, without
\* its len(values) > 1.
gini_coefficient_degenerate_first(vs) ==
    IF vs = <<>> THEN EmptyInputError
    ELSE LET pos == PositiveOnly(vs) IN
    IF Len(pos) = 0 THEN NoPositiveValuesError
    ELSE LET s == Sort(pos)
             n == Len(s)
         IN
    IF Len(SelectSeq(s, LAMBDA v : v > 0)) = 1 THEN Ok(One)
    ELSE IF n = 1 THEN Ok(Zero)
    ELSE IF AllEqual(s) THEN Ok(Zero)
    ELSE LET numerator   == 2 * RankWeightedSum(s) - (n + 1) * Sum(s)
             denominator == n * Sum(s)
         IN  Ok(Clamp01(Rat(numerator, denominator)))

gini_coefficient(vs) ==
    IF vs = <<>> THEN EmptyInputError
    ELSE LET pos == PositiveOnly(vs) IN
    IF Len(pos) = 0 THEN NoPositiveValuesError
    ELSE LET s == Sort(pos)
             n == Len(s)
         IN
    IF n = 1 THEN Ok(Zero)
    ELSE IF AllEqual(s) THEN Ok(Zero)
    ELSE IF Len(SelectSeq(s, LAMBDA v : v > 0)) = 1 /\ Len(s) > 1 THEN Ok(One)
    ELSE LET numerator   == 2 * RankWeightedSum(s) - (n + 1) * Sum(s)
             denominator == n * Sum(s)
         IN  Ok(Clamp01(Rat(numerator, denominator)))

(***************************************************************************)
(* palma_ratio                                                             *)
(***************************************************************************)
\* The smallest number of positive values palma_ratio accepts.
MinPalmaValues == 10

\* float('inf')
Infinity == Rat(1, 0)

\* palma_ratio with the size test written n <= 10.
palma_ratio_off_by_one(vs) ==
    IF vs = <<>> THEN EmptyInputError
    ELSE LET pos == PositiveOnly(vs) IN
    IF Len(pos) = 0 THEN NoPositiveValuesError
    ELSE LET s == Sort(pos)
             n == Len(s)
         IN
    IF n <= MinPalmaValues THEN InsufficientDataError
    ELSE LET top_10_threshold    == Percentile(s, 90)
             bottom_40_threshold == Percentile(s, 40)
             top_10_share    == Rat(SumGeq(s, top_10_threshold), Sum(s))
             bottom_40_share == Rat(SumLeq(s, bottom_40_threshold), Sum(s))
         IN
    IF RatEq(bottom_40_share, Zero)
    THEN (IF RatLess(Zero, top_10_share) THEN Ok(Infinity) ELSE Ok(Zero))
    ELSE Ok(RatDiv(top_10_share, bottom_40_share))

palma_ratio(vs) ==
    IF vs = <<>> THEN EmptyInputError
    ELSE LET pos == PositiveOnly(vs) IN
    IF Len(pos) = 0 THEN NoPositiveValuesError
    ELSE LET s == Sort(pos)
             n == Len(s)
         IN
    IF n < MinPalmaValues THEN InsufficientDataError
    ELSE LET top_10_threshold    == Percentile(s, 90)
             bottom_40_threshold == Percentile(s, 40)
             top_10_share    == Rat(SumGeq(s, top_10_threshold), Sum(s))
             bottom_40_share == Rat(SumLeq(s, bottom_40_threshold), Sum(s))
         IN
    IF RatEq(bottom_40_share, Zero)
    THEN (IF RatLess(Zero, top_10_share) THEN Ok(Infinity) ELSE Ok(Zero))
    ELSE Ok(RatDiv(top_10_share, bottom_40_share))

(***************************************************************************)
(* income_shares                                                           *)
(***************************************************************************)
\* percentiles = None
NoPercentiles == [given |-> FALSE, list |-> <<>>]

Percentiles(l) == [given |-> TRUE, list |-> l]

DefaultPercentiles == <<1, 10, 50, 90, 99>>

\* The percentiles arguments tried.
PercentileArgs ==
    { NoPercentiles, Percentiles(<<25, 75>>), Percentiles(<<1, 10>>),
      Percentiles(<<50, 90, 99>>), Percentiles(<<1, 10, 99>>),
      Percentiles(<<-5, 100, 150>>) }

\* f'p{percentile}'
PKey(percentile) == "p" \o ToString(percentile)

\* x in l, for a Python list l
InList(x, l) == \E i \in 1..Len(l) : l[i] = x

\* {}
EmptyDict == [k \in {} |-> Zero]

\* d[k] = v
DictSet(d, k, v) == [x \in (DOMAIN d) \cup {k} |-> IF x = k THEN v ELSE d[x]]

\* The loop of income_shares over the requested percentiles, in order.
RECURSIVE SharesLoop(_, _, _, _)
SharesLoop(s, total_income, ps, shares) ==
    IF ps = <<>> THEN shares
    ELSE LET percentile == Head(ps) IN
         IF percentile < 0 \/ percentile > 100
         THEN SharesLoop(s, total_income, Tail(ps), shares)
         ELSE LET threshold == Percentile(s, percentile)
                  share == IF percentile = 100 THEN One
                           ELSE Rat(SumLeq(s, threshold), total_income)
              IN  SharesLoop(s, total_income, Tail(ps),
                             DictSet(shares, PKey(percentile), share))

\* The derived keys added after the loop; shares[k] of a missing k raises
\* KeyError.
DerivedShares(ps, shares) ==
    LET topKeys == InList(1, ps) /\ InList(10, ps)
        withTop ==
            IF topKeys
            THEN DictSet(DictSet(shares, "top_1_share", OneMinus(shares["p99"])),
                         "top_10_share", OneMinus(shares["p90"]))
            ELSE shares
        withBottom ==
            IF InList(50, ps)
            THEN DictSet(withTop, "bottom_50_share", withTop["p50"])
            ELSE withTop
    IN  IF topKeys /\ "p99" \notin DOMAIN shares THEN Raise("KeyError", "p99")
        ELSE IF topKeys /\ "p90" \notin DOMAIN shares THEN Raise("KeyError", "p90")
        ELSE Ok(withBottom)

income_shares(vs, parg) ==
    IF vs = <<>> THEN EmptyInputError
    ELSE LET ps  == IF parg.given THEN parg.list ELSE DefaultPercentiles
             pos == PositiveOnly(vs)
         IN
    IF Len(pos) = 0 THEN NoPositiveValuesError
    ELSE LET s == Sort(pos)
             total_income == Sum(s)
         IN
    IF total_income = 0 THEN TotalIncomeZeroError
    ELSE DerivedShares(ps, SharesLoop(s, total_income, ps, EmptyDict))

(***************************************************************************)
(* lorenz_curve_data                                                       *)
(***************************************************************************)
\* np.linspace(0, 1, m), m >= 1
Linspace(m) == [k \in 1..m |-> IF m = 1 THEN Zero ELSE Rat(k - 1, m - 1)]

\* The loop body without its p == 0 case.
LorenzPointNoZeroCase(s, total_income, p) ==
    IF RatEq(p, One) THEN One
    ELSE LET n == Len(s)
             i == (p.n * n) \div p.d
             index == IF i >= n THEN n - 1 ELSE i
             cumulative_income == Sum(SubSeq(s, 1, index + 1))
         IN  Rat(cumulative_income, total_income)

\* The income share the loop of lorenz_curve_data appends for the
\* population share p, over the ascending sample s.
LorenzPoint(s, total_income, p) ==
    IF RatEq(p, Zero) THEN Zero
    ELSE IF RatEq(p, One) THEN One
    ELSE LET n == Len(s)
             i == (p.n * n) \div p.d
             index == IF i >= n THEN n - 1 ELSE i
             cumulative_income == Sum(SubSeq(s, 1, index + 1))
         IN  Rat(cumulative_income, total_income)

lorenz_curve_data(vs, m) ==
    IF vs = <<>> THEN EmptyInputError
    ELSE LET pos == PositiveOnly(vs) IN
    IF Len(pos) = 0 THEN NoPositiveValuesError
    ELSE LET s == Sort(pos)
             total_income == Sum(s)
             population_shares == Linspace(m)
         IN
    IF total_income = 0 THEN TotalIncomeZeroError
    ELSE Ok([population_shares |-> population_shares,
             income_shares |->
                 [k \in 1..Len(population_shares) |->
                     LorenzPoint(s, total_income, population_shares[k])]])

(***************************************************************************)
(* theil_index, atkinson_index                                             *)
(*                                                                         *)
(* Both return a float computed with log or exp from the array of the      *)
(* positive values, in the order of the input (neither sorts).  The value  *)
(* is kept as that array, the argument of the formula.                     *)
(***************************************************************************)
theil_index(vs) ==
    IF vs = <<>> THEN EmptyInputError
    ELSE LET pos == PositiveOnly(vs) IN
    IF Len(pos) = 0 THEN NoPositiveValuesError
    ELSE IF Sum(pos) = 0 THEN Ok([formula |-> "zero", x |-> <<>>])
    ELSE Ok([formula |-> "theil", x |-> pos])

\* atkinson_index testing epsilon after the filter, next to the formula
\* that uses it.
atkinson_index_late_epsilon(vs, eps) ==
    IF vs = <<>> THEN EmptyInputError
    ELSE LET pos == PositiveOnly(vs) IN
    IF Len(pos) = 0 THEN NoPositiveValuesError
    ELSE IF eps <= 0 THEN InvalidParameterError
    ELSE IF eps = 1 THEN Ok([formula |-> "atkinson_eps1", x |-> pos])
    ELSE Ok([formula |-> "atkinson", epsilon |-> eps, x |-> pos])

atkinson_index(vs, eps) ==
    IF vs = <<>> THEN EmptyInputError
    ELSE IF eps <= 0 THEN InvalidParameterError
    ELSE LET pos == PositiveOnly(vs) IN
    IF Len(pos) = 0 THEN NoPositiveValuesError
    ELSE IF eps = 1 THEN Ok([formula |-> "atkinson_eps1", x |-> pos])
    ELSE Ok([formula |-> "atkinson", epsilon |-> eps, x |-> pos])

(***************************************************************************)
(* The state machine.                                                      *)
(***************************************************************************)
(***************************************************************************)
(* calculate_all_metrics                                                   *)
(***************************************************************************)
\* epsilon: float = 1.0, the default of atkinson_index
DefaultEpsilon == 1

\* metrics.update(shares)
DictUpdate(d, e) ==
    [k \in (DOMAIN d) \cup (DOMAIN e) |-> IF k \in DOMAIN e THEN e[k] ELSE d[k]]

\* The two ratios calculate_all_metrics adds after the income shares.
DerivedRatios(metrics, shares) ==
    LET withPalma ==
            IF "top_10_share" \in DOMAIN shares /\ "bottom_50_share" \in DOMAIN shares
            THEN DictSet(metrics, "palma_ratio_manual",
                         RatDiv(shares["top_10_share"], shares["bottom_50_share"]))
            ELSE metrics
    IN  IF "top_1_share" \in DOMAIN shares /\ "bottom_50_share" \in DOMAIN shares
        THEN DictSet(withPalma, "top_1_vs_bottom_50",
                     RatDiv(shares["top_1_share"], shares["bottom_50_share"]))
        ELSE withPalma

\* calculate_all_metrics with `metrics` created before the try block and
\* returned by the except clause as far as it was filled.
calculate_all_metrics_partial(vs) ==
    LET g == gini_coefficient(vs)
        p == palma_ratio(vs)
        t == theil_index(vs)
        a == atkinson_index(vs, DefaultEpsilon)
        shares == income_shares(vs, NoPercentiles)
        m1 == DictSet(EmptyDict, "gini", g.value)
        m2 == DictSet(m1, "palma_ratio", p.value)
        m3 == DictSet(m2, "theil_index", t.value)
        m4 == DictSet(m3, "atkinson_index", a.value)
    IN  IF ~g.ok THEN Ok(EmptyDict)
        ELSE IF ~p.ok THEN Ok(m1)
        ELSE IF ~t.ok THEN Ok(m2)
        ELSE IF ~a.ok THEN Ok(m3)
        ELSE IF ~shares.ok THEN Ok(m4)
        ELSE Ok(DerivedRatios(DictUpdate(m4, shares.value), shares.value))

\* The try block runs the metrics in order; the first exception ends it and
\* the except clause returns {}.
calculate_all_metrics(vs) ==
    LET g == gini_coefficient(vs)
        p == palma_ratio(vs)
        t == theil_index(vs)
        a == atkinson_index(vs, DefaultEpsilon)
        shares == income_shares(vs, NoPercentiles)
        m1 == DictSet(EmptyDict, "gini", g.value)
        m2 == DictSet(m1, "palma_ratio", p.value)
        m3 == DictSet(m2, "theil_index", t.value)
        m4 == DictSet(m3, "atkinson_index", a.value)
    IN  IF ~g.ok THEN Ok(EmptyDict)
        ELSE IF ~p.ok THEN Ok(EmptyDict)
        ELSE IF ~t.ok THEN Ok(EmptyDict)
        ELSE IF ~a.ok THEN Ok(EmptyDict)
        ELSE IF ~shares.ok THEN Ok(EmptyDict)
        ELSE Ok(DerivedRatios(DictUpdate(m4, shares.value), shares.value))

\* No cleaning function is in use.
DataIdle == arg = <<>> /\ fn = "none" /\ ret = <<>>

Init ==
    /\ values = <<>>
    /\ op = "none"
    /\ percentiles = NoPercentiles
    /\ num_points = 0
    /\ epsilon = 0
    /\ result = NoResult
    /\ DataIdle

\* The caller adds one element to the sample it is about to pass.  A sample
\* is built fresh for every call: op = "none" until the call is made, and
\* adding an element after a call starts the next sample from this one.
AppendValue ==
    /\ Len(values) < MaxLen
    /\ \E v \in SampleValues :
          /\ IF Len(values) < FreeLen THEN TRUE ELSE v >= values[Len(values)]
          /\ values' = Append(values, v)
    /\ op' = "none"
    /\ percentiles' = NoPercentiles
    /\ num_points' = 0
    /\ epsilon' = 0
    /\ result' = NoResult
    /\ UNCHANGED dataVars

CallGini ==
    /\ op = "none"
    /\ op' = "gini_coefficient"
    /\ result' = gini_coefficient(values)
    /\ percentiles' = NoPercentiles
    /\ num_points' = 0
    /\ epsilon' = 0
    /\ UNCHANGED <<values, arg, fn, ret>>

CallPalma ==
    /\ op = "none"
    /\ op' = "palma_ratio"
    /\ result' = palma_ratio(values)
    /\ percentiles' = NoPercentiles
    /\ num_points' = 0
    /\ epsilon' = 0
    /\ UNCHANGED <<values, arg, fn, ret>>

CallIncomeShares ==
    /\ op = "none"
    /\ \E p \in PercentileArgs :
          /\ percentiles' = p
          /\ result' = income_shares(values, p)
    /\ op' = "income_shares"
    /\ num_points' = 0
    /\ epsilon' = 0
    /\ UNCHANGED <<values, arg, fn, ret>>

CallLorenz ==
    /\ op = "none"
    /\ \E m \in NumPointsValues :
          /\ num_points' = m
          /\ result' = lorenz_curve_data(values, m)
    /\ op' = "lorenz_curve_data"
    /\ percentiles' = NoPercentiles
    /\ epsilon' = 0
    /\ UNCHANGED <<values, arg, fn, ret>>

CallTheil ==
    /\ op = "none"
    /\ op' = "theil_index"
    /\ result' = theil_index(values)
    /\ percentiles' = NoPercentiles
    /\ num_points' = 0
    /\ epsilon' = 0
    /\ UNCHANGED <<values, arg, fn, ret>>

CallAtkinson ==
    /\ op = "none"
    /\ \E e \in EpsilonValues :
          /\ epsilon' = e
          /\ result' = atkinson_index(values, e)
    /\ op' = "atkinson_index"
    /\ percentiles' = NoPercentiles
    /\ num_points' = 0
    /\ UNCHANGED <<values, arg, fn, ret>>

CallAllMetrics ==
    /\ op = "none"
    /\ op' = "calculate_all_metrics"
    /\ result' = calculate_all_metrics(values)
    /\ percentiles' = NoPercentiles
    /\ num_points' = 0
    /\ epsilon' = 0
    /\ UNCHANGED <<values, arg, fn, ret>>

Next ==
    \/ AppendValue
    \/ CallGini
    \/ CallPalma
    \/ CallIncomeShares
    \/ CallLorenz
    \/ CallTheil
    \/ CallAtkinson
    \/ CallAllMetrics

Spec == Init /\ [][Next]_vars

(***************************************************************************)
(* Tables (pandas DataFrames) of the cleaning pipeline.  A table is its    *)
(* set of column names and its rows in order; a row is a mapping from the  *)
(* column names to cells.  A float cell is a fraction and NaN is 0/0; a    *)
(* cell of an object column is the Python type of the value, the text      *)
(* str() gives for it without surrounding whitespace, and whether the      *)
(* text is surrounded by whitespace.                                       *)
(***************************************************************************)
\* Most rows in the tables of one call.
MaxRows == 3

NaN == [n |-> 0, d |-> 0]

IsNaN(x) == x.d = 0 /\ x.n = 0

DataFrame(cols, rows) == [columns |-> cols, rows |-> rows]

\* pd.DataFrame()
EmptyFrame == DataFrame({}, <<>>)

\* df.empty
IsEmpty(df) == df.rows = <<>> \/ df.columns = {}

\* A Python str without surrounding whitespace.
Str(text) == [py |-> "str", s |-> text, ws |-> FALSE]

\* A Python str with whitespace around the text.
Padded(text) == [py |-> "str", s |-> text, ws |-> TRUE]

\* None, whose str() is 'None'.
None == [py |-> "NoneType", s |-> "None", ws |-> FALSE]

\* str(x).strip()
StrStrip(x) == Str(x.s)

\* The strings the model compares, in Python's order of str.
SortedStrings ==
    <<"DEU", "Germany", "Narnia", "None", "US", "USA", "Unknown", "XYZ", "usa">>

StrRank(text) == CHOOSE i \in 1..Len(SortedStrings) : SortedStrings[i] = text

\* country_mapping of normalize_country_codes
country_mapping ==
    {<<"US", "USA">>, <<"United States", "USA">>, <<"USA", "USA">>,
     <<"Germany", "DEU">>, <<"DE", "DEU">>, <<"DEU", "DEU">>,
     <<"France", "FRA">>, <<"FR", "FRA">>, <<"FRA", "FRA">>,
     <<"United Kingdom", "GBR">>, <<"UK", "GBR">>, <<"GB", "GBR">>, <<"GBR", "GBR">>,
     <<"Italy", "ITA">>, <<"IT", "ITA">>, <<"ITA", "ITA">>,
     <<"Spain", "ESP">>, <<"ES", "ESP">>, <<"ESP", "ESP">>,
     <<"Canada", "CAN">>, <<"CA", "CAN">>, <<"CAN", "CAN">>,
     <<"Australia", "AUS">>, <<"AU", "AUS">>, <<"AUS", "AUS">>,
     <<"Japan", "JPN">>, <<"JP", "JPN">>, <<"JPN", "JPN">>,
     <<"Brazil", "BRA">>, <<"BR", "BRA">>, <<"BRA", "BRA">>,
     <<"India", "IND">>, <<"IN", "IND">>, <<"IND", "IND">>,
     <<"China", "CHN">>, <<"CN", "CHN">>, <<"CHN", "CHN">>,
     <<"Russia", "RUS">>, <<"RU", "RUS">>, <<"RUS", "RUS">>,
     <<"Mexico", "MEX">>, <<"MX", "MEX">>, <<"MEX", "MEX">>,
     <<"South Korea", "KOR">>, <<"KR", "KOR">>, <<"KOR", "KOR">>,
     <<"Netherlands", "NLD">>, <<"NL", "NLD">>, <<"NLD", "NLD">>,
     <<"Sweden", "SWE">>, <<"SE", "SWE">>, <<"SWE", "SWE">>,
     <<"Norway", "NOR">>, <<"NO", "NOR">>, <<"NOR", "NOR">>,
     <<"Denmark", "DNK">>, <<"DK", "DNK">>, <<"DNK", "DNK">>,
     <<"Finland", "FIN">>, <<"FI", "FIN">>, <<"FIN", "FIN">>}

\* The keys of country_mapping.
MappingKeys == {p[1] : p \in country_mapping}

\* country_mapping.get(key, default)
MappingGet(key, default) ==
    IF key \in MappingKeys
    THEN (CHOOSE p \in country_mapping : p[1] = key)[2]
    ELSE default

\* str.upper() of the texts of the model
Upper(text) ==
    IF text = "usa" THEN "USA" ELSE IF text = "deu" THEN "DEU" ELSE text

\* COUNTRY_CODES of src/src/utils.py, as far as the model's codes go.
COUNTRY_CODES ==
    {<<"USA", "United States">>, <<"DEU", "Germany">>}

\* get_country_name: COUNTRY_CODES.get(code.upper(), code)
get_country_name(code) ==
    LET upper == Upper(code)
    IN  IF \E p \in COUNTRY_CODES : p[1] = upper
        THEN (CHOOSE p \in COUNTRY_CODES : p[1] = upper)[2]
        ELSE code

\* df[column] = cells, the column added when it is new
WithColumn(df, column, cells) ==
    DataFrame(df.columns \cup {column},
              [i \in 1..Len(df.rows) |-> DictSet(df.rows[i], column, cells[i])])

normalize_country_codes(df, country_column) ==
    IF country_column \notin df.columns THEN df
    ELSE LET df_clean ==
                 WithColumn(df, country_column,
                            [i \in 1..Len(df.rows) |->
                                LET x == StrStrip(df.rows[i][country_column])
                                IN  Str(MappingGet(x.s, x.s))])
         IN  IF "country_name" \notin df_clean.columns
             THEN WithColumn(df_clean, "country_name",
                             [i \in 1..Len(df_clean.rows) |->
                                 Str(get_country_name(df_clean.rows[i][country_column].s))])
             ELSE df_clean

\* The cells of a row in the columns of subset.
KeyOf(row, subset) == [c \in subset |-> row[c]]

\* drop_duplicates(subset=..., keep='last')
RECURSIVE DropDuplicatesKeepLast(_, _)
DropDuplicatesKeepLast(rows, subset) ==
    IF rows = <<>> THEN <<>>
    ELSE LET r == Head(rows)
             rest == Tail(rows)
         IN  IF \E j \in 1..Len(rest) : KeyOf(rest[j], subset) = KeyOf(r, subset)
             THEN DropDuplicatesKeepLast(rest, subset)
             ELSE <<r>> \o DropDuplicatesKeepLast(rest, subset)

\* drop_duplicates(subset=..., keep='first'); NaN cells count as equal
RECURSIVE DropDuplicates(_, _)
DropDuplicates(rows, subset) ==
    IF rows = <<>> THEN <<>>
    ELSE LET init == SubSeq(rows, 1, Len(rows) - 1)
             r == rows[Len(rows)]
         IN  IF \E j \in 1..Len(init) : KeyOf(init[j], subset) = KeyOf(r, subset)
             THEN DropDuplicates(init, subset)
             ELSE Append(DropDuplicates(init, subset), r)

\* (country_code, year) of a is not after that of b
CountryYearLeq(a, b) ==
    \/ StrRank(a.country_code.s) < StrRank(b.country_code.s)
    \/ /\ a.country_code.s = b.country_code.s
       /\ a.year <= b.year

RECURSIVE InsertRow(_, _)
InsertRow(rows, x) ==
    IF rows = <<>> THEN <<x>>
    ELSE IF CountryYearLeq(x, Head(rows)) THEN <<x>> \o rows
    ELSE <<Head(rows)>> \o InsertRow(Tail(rows), x)

\* df.sort_values(['country_code', 'year']); rows with equal keys keep
\* their order
RECURSIVE SortValues(_)
SortValues(rows) ==
    IF rows = <<>> THEN <<>> ELSE InsertRow(SortValues(Tail(rows)), Head(rows))

\* column_mapping of standardize_column_names
column_mapping ==
    {<<"Country", "country_code">>, <<"Country Code", "country_code">>,
     <<"CountryName", "country_name">>, <<"Country Name", "country_name">>,
     <<"Year", "year">>,
     <<"Gini", "gini">>, <<"Gini Coefficient", "gini">>, <<"GiniIndex", "gini">>,
     <<"Top10Share", "top_10_share">>, <<"Top 10 Share", "top_10_share">>,
     <<"Top10", "top_10_share">>,
     <<"Bottom50Share", "bottom_50_share">>, <<"Bottom 50 Share", "bottom_50_share">>,
     <<"Bottom50", "bottom_50_share">>,
     <<"Top1Share", "top_1_share">>, <<"Top 1 Share", "top_1_share">>,
     <<"Top1", "top_1_share">>,
     <<"PalmaRatio", "palma_ratio">>, <<"Palma Ratio", "palma_ratio">>,
     <<"Source", "source">>, <<"DataSource", "source">>}

\* The name rename(columns=column_mapping) gives a column.
Renamed(col) ==
    IF \E p \in column_mapping : p[1] = col
    THEN (CHOOSE p \in column_mapping : p[1] = col)[2]
    ELSE col

\* col.lower().replace(' ', '_') of the headers of the model that are not
\* in lower case with underscores already
LowerUnderscored ==
    {<<"Region", "region">>, <<"Income Group", "income_group">>,
     <<"YEAR", "year">>, <<"Country code", "country_code">>}

LowerUnderscore(col) ==
    IF \E p \in LowerUnderscored : p[1] = col
    THEN (CHOOSE p \in LowerUnderscored : p[1] = col)[2]
    ELSE col

\* The name standardize_column_names gives a column.
StandardName(col) == LowerUnderscore(Renamed(col))

\* The columns of standardize_column_names(df), columns being df.columns in
\* order.
StandardNames(columns) == [i \in 1..Len(columns) |-> StandardName(columns[i])]

\* standardize_column_names on a table no two columns of which get the same
\* name.
standardize_column_names(df) ==
    LET Source(name) == CHOOSE c \in df.columns : StandardName(c) = name
        names == {StandardName(c) : c \in df.columns}
    IN  DataFrame(names,
                  [i \in 1..Len(df.rows) |-> [n \in names |-> df.rows[i][Source(n)]]])

\* The number of cells equal to x.
Occurrences(cells, x) == Cardinality({i \in 1..Len(cells) : cells[i] = x})

\* df[col].mode().iloc[0], or 'Unknown' when the column has no value: the
\* first in order of the most frequent values.
MostCommon(cells) ==
    LET present == {cells[i] : i \in 1..Len(cells)} \ {None}
        top == {x \in present :
                   \A y \in present : Occurrences(cells, y) <= Occurrences(cells, x)}
    IN  IF present = {} THEN Str("Unknown")
        ELSE CHOOSE x \in top : \A y \in top : StrRank(x.s) <= StrRank(y.s)

\* The columns of the model's tables that hold text (dtype object).
ObjectColumns == {"country_code", "Country", "Country Code", "country_name", "source"}

\* handle_missing_values of data_cleaning.py: a missing cell of a text
\* column other than country_code, country_name and source becomes the
\* most common value of the column.
FillCategorical(df) ==
    LET fill == {c \in df.columns : c \notin {"country_code", "country_name", "source"}
                                     /\ c \in ObjectColumns}
        Column(c) == [i \in 1..Len(df.rows) |-> df.rows[i][c]]
    IN  DataFrame(df.columns,
                  [i \in 1..Len(df.rows) |->
                      [c \in df.columns |->
                          IF c \in fill /\ df.rows[i][c] = None
                          THEN MostCommon(Column(c))
                          ELSE df.rows[i][c]]])

\* validate_data_types on a table whose numeric columns hold numbers:
\* country_code is cast to str.
validate_data_types(df) ==
    IF "country_code" \notin df.columns THEN df
    ELSE WithColumn(df, "country_code",
                    [i \in 1..Len(df.rows) |->
                        IF df.rows[i].country_code = None THEN Str("None")
                        ELSE df.rows[i].country_code])

clean_inequality_data(df) ==
    IF IsEmpty(df) THEN df
    ELSE LET normalized ==
                 IF "country_code" \in df.columns
                 THEN normalize_country_codes(df, "country_code")
                 ELSE df
             typed == validate_data_types(
                          standardize_column_names(FillCategorical(normalized)))
             unique == DropDuplicates(typed.rows, typed.columns)
         IN  IF {"country_code", "year"} \subseteq typed.columns
             THEN DataFrame(typed.columns, SortValues(unique))
             ELSE DataFrame(typed.columns, unique)

\* The concatenation that puts the rows of the later frames first.
RECURSIVE ConcatReversed(_)
ConcatReversed(frames) ==
    IF frames = <<>> THEN [columns |-> {}, rows |-> <<>>]
    ELSE LET rest == ConcatReversed(Tail(frames))
             cols == Head(frames).columns \cup rest.columns
             Fill(rows) ==
                 [i \in 1..Len(rows) |->
                     [c \in cols |-> IF c \in DOMAIN rows[i] THEN rows[i][c] ELSE NaN]]
         IN  [columns |-> cols, rows |-> Fill(rest.rows) \o Fill(Head(frames).rows)]

\* pd.concat(frames, ignore_index=True): the union of the columns, a cell
\* of a column the frame does not have is NaN
RECURSIVE Concat(_)
Concat(frames) ==
    IF frames = <<>> THEN EmptyFrame
    ELSE LET rest == Concat(Tail(frames))
             cols == Head(frames).columns \cup rest.columns
             Fill(rows) ==
                 [i \in 1..Len(rows) |->
                     [c \in cols |-> IF c \in DOMAIN rows[i] THEN rows[i][c] ELSE NaN]]
         IN  DataFrame(cols, Fill(Head(frames).rows) \o Fill(rest.rows))

\* The loop of merge_data_sources over dataframes.items().
RECURSIVE CleanedSources(_)
CleanedSources(sources) ==
    IF sources = <<>> THEN <<>>
    ELSE LET source == Head(sources).name
             df == Head(sources).df
         IN  IF ~IsEmpty(df)
             THEN LET df_clean == clean_inequality_data(df)
                  IN  <<WithColumn(df_clean, "source",
                                   [i \in 1..Len(df_clean.rows) |-> Str(source)])>>
                      \o CleanedSources(Tail(sources))
             ELSE CleanedSources(Tail(sources))

\* key_columns of merge_data_sources
KeyColumns(df) ==
    {"country_code", "year"} \cup (IF "gini" \in df.columns THEN {"gini"} ELSE {})

merge_data_sources(sources) ==
    IF sources = <<>> THEN EmptyFrame
    ELSE LET cleaned_dfs == CleanedSources(sources) IN
    IF cleaned_dfs = <<>> THEN EmptyFrame
    ELSE LET merged_df == Concat(cleaned_dfs)
         IN  DataFrame(merged_df.columns,
                       DropDuplicates(merged_df.rows, KeyColumns(merged_df)))

(***************************************************************************)
(* merge_data_sources as a state machine: the caller fills the dictionary  *)
(* source by source and row by row, then merges it.                        *)
(***************************************************************************)
\* The country codes, years and Gini values of the rows.
CountryCells == {Str("US"), Str("USA"), Str("DEU")}
YearValues == {2019, 2020}
GiniCells == {Rat(40, 100)}

\* The keys of the dictionary, in its order.
SourceNames == <<"worldbank", "oecd">>

\* The rows in all tables of the dictionary.
RECURSIVE TotalRows(_)
TotalRows(sources) ==
    IF sources = <<>> THEN 0 ELSE Len(Head(sources).df.rows) + TotalRows(Tail(sources))

AddSource ==
    /\ fn = "none"
    /\ Len(arg) < Len(SourceNames)
    /\ \E with_gini \in BOOLEAN :
           arg' = Append(arg,
                         [name |-> SourceNames[Len(arg) + 1],
                          df |-> DataFrame({"country_code", "year"}
                                           \cup (IF with_gini THEN {"gini"} ELSE {}),
                                           <<>>)])
    /\ UNCHANGED <<fn, ret>>
    /\ UNCHANGED metricVars

AddSourceRow ==
    /\ fn = "none"
    /\ arg # <<>>
    /\ TotalRows(arg) < MaxRows
    /\ LET last == arg[Len(arg)] IN
       \E c \in CountryCells, y \in YearValues,
          g \in (IF "gini" \in last.df.columns THEN GiniCells ELSE {NaN}) :
           LET row == IF "gini" \in last.df.columns
                      THEN [country_code |-> c, year |-> y, gini |-> g]
                      ELSE [country_code |-> c, year |-> y]
           IN  arg' = [arg EXCEPT ![Len(arg)].df.rows = Append(@, row)]
    /\ UNCHANGED <<fn, ret>>
    /\ UNCHANGED metricVars

CallMerge ==
    /\ fn = "none"
    /\ fn' = "merge_data_sources"
    /\ ret' = merge_data_sources(arg)
    /\ UNCHANGED arg
    /\ UNCHANGED metricVars

NextMerge ==
    \/ AddSource
    \/ AddSourceRow
    \/ CallMerge

SpecMerge == Init /\ [][NextMerge]_vars

(***************************************************************************)
(* The World Bank adapters: src/utils/data_models.py and format_gini_data  *)
(* of src/utils/visualization.py.  An API entry is a dict with its 'date'  *)
(* and 'value'; a row of the table has year, value and country_code.       *)
(***************************************************************************)
\* Most entries of one API response.
MaxEntries == 2

\* Lowest and highest year validate_year accepts.
MinYear == 1960
MaxYear == 2030

\* The largest value of the 0-1 scale and of the 0-100 scale.
UnitScale == 1
PercentScale == 100

IsNone(x) == "py" \in DOMAIN x /\ x.py = "NoneType"

\* The texts int() turns into a number; int() of any other text raises
\* ValueError.
IntTexts == ("1950" :> 1950) @@ ("2019" :> 2019) @@ ("2020" :> 2020)

\* validate_year
validate_year(year) ==
    IF IsNone(year) THEN FALSE
    ELSE IF year.s \notin DOMAIN IntTexts THEN FALSE
    ELSE MinYear <= IntTexts[year.s] /\ IntTexts[year.s] <= MaxYear

\* validate_gini_value, of None or a float
validate_gini_value(value) ==
    IF IsNone(value) THEN FALSE
    ELSE IF IsNaN(value) THEN FALSE
    ELSE \/ RatLeq(Zero, value) /\ RatLeq(value, Rat(PercentScale, 1))
         \/ RatLeq(Zero, value) /\ RatLeq(value, Rat(UnitScale, 1))

\* value * 100
Times100(value) == Rat(value.n * 100, value.d)

\* x * 100 if x <= 1 else x
ToPercentScale(value) ==
    IF RatLeq(value, Rat(UnitScale, 1)) THEN Times100(value) ELSE value

\* round(x, 2) of x >= 0, to the nearest hundredth, a tie going to the
\* even one
Round2(value) ==
    LET scaled == value.n * 100
        q == scaled \div value.d
        r == scaled % value.d
    IN  IF 2 * r > value.d THEN Rat(q + 1, 100)
        ELSE IF 2 * r < value.d THEN Rat(q, 100)
        ELSE IF q % 2 = 0 THEN Rat(q, 100)
        ELSE Rat(q + 1, 100)

RECURSIVE InsertByYear(_, _)
InsertByYear(rows, x) ==
    IF rows = <<>> THEN <<x>>
    ELSE IF x.year <= Head(rows).year THEN <<x>> \o rows
    ELSE <<Head(rows)>> \o InsertByYear(Tail(rows), x)

\* df.sort_values('year'); rows of the same year keep their order, as
\* numpy's sort of a short array does
RECURSIVE SortByYear(_)
SortByYear(rows) ==
    IF rows = <<>> THEN <<>> ELSE InsertByYear(SortByYear(Tail(rows)), Head(rows))

\* The columns of the adapters' tables.
GiniColumns == {"year", "value", "country_code"}

\* The loop of convert_api_response_to_dataframe over api_response.
RECURSIVE ProcessedData(_, _)
ProcessedData(api_response, country_code) ==
    IF api_response = <<>> THEN <<>>
    ELSE LET entry == Head(api_response)
             rest == ProcessedData(Tail(api_response), country_code)
         IN  IF IsNone(entry.date) \/ IsNone(entry.value) THEN rest
             ELSE IF validate_year(entry.date) /\ validate_gini_value(entry.value)
             THEN <<[year |-> IntTexts[entry.date.s],
                     value |-> ToPercentScale(entry.value),
                     country_code |-> Upper(country_code)]>> \o rest
             ELSE rest

convert_api_response_to_dataframe(api_response, country_code) ==
    IF api_response = <<>> THEN DataFrame(GiniColumns, <<>>)
    ELSE LET processed_data == ProcessedData(api_response, country_code)
         IN  IF processed_data = <<>> THEN EmptyFrame
             ELSE DataFrame(GiniColumns, SortByYear(processed_data))

\* The loop of format_gini_data over raw_data['data']; an entry of the
\* model has no 'country', so that its country_code is ''.
RECURSIVE DataPoints(_)
DataPoints(api_data) ==
    IF api_data = <<>> THEN <<>>
    ELSE LET entry == Head(api_data)
             rest == DataPoints(Tail(api_data))
         IN  IF IsNone(entry.date) \/ IsNone(entry.value) THEN rest
             ELSE IF entry.date.s \notin DOMAIN IntTexts THEN rest
             ELSE <<[year |-> IntTexts[entry.date.s],
                     value |-> Round2(ToPercentScale(entry.value)),
                     country_code |-> ""]>> \o rest

\* format_gini_data({'data': api_data})
format_gini_data(api_data) ==
    LET data_points == DataPoints(api_data)
    IN  IF data_points = <<>> THEN EmptyFrame
        ELSE DataFrame(GiniColumns,
                       DropDuplicatesKeepLast(SortByYear(data_points), {"year"}))

\* clean_gini_data on a table of the three columns whose years are
\* integers
clean_gini_data(df) ==
    IF IsEmpty(df) THEN df
    ELSE LET valid == SelectSeq(df.rows,
                                LAMBDA r : /\ MinYear <= r.year /\ r.year <= MaxYear
                                           /\ validate_gini_value(r.value))
             unique == DropDuplicatesKeepLast(valid, {"year", "country_code"})
             sorted == SortByYear(unique)
         IN  DataFrame(df.columns,
                       [i \in 1..Len(sorted) |->
                           [sorted[i] EXCEPT !.value = Round2(ToPercentScale(@)),
                                             !.country_code = Upper(@)]])

\* df.dropna() on a table whose year and country_code are never missing
DropNa(rows) == SelectSeq(rows, LAMBDA r : ~IsNaN(r.value))

\* The value the straight line from a at position 0 to b at position m has
\* at position k.
Lerp(a, b, k, m) ==
    Rat(a.n * b.d * m + (b.n * a.d - a.n * b.d) * k, a.d * b.d * m)

\* The positions of vs before i, and after i, that hold a value.
ValidBefore(vs, i) == {j \in 1..(i - 1) : ~IsNaN(vs[j])}
ValidAfter(vs, i) == {j \in (i + 1)..Len(vs) : ~IsNaN(vs[j])}

Max(S) == CHOOSE x \in S : \A y \in S : y <= x
Min(S) == CHOOSE x \in S : \A y \in S : x <= y

\* Series.interpolate(method='linear') with pandas' defaults
\* (limit_direction='forward', limit_area=None): the positions count as
\* equally spaced, a gap after the last value is filled with that value,
\* a gap before the first value stays missing
Interpolate(vs) ==
    [i \in 1..Len(vs) |->
        IF ~IsNaN(vs[i]) THEN vs[i]
        ELSE IF ValidBefore(vs, i) = {} THEN NaN
        ELSE LET p == Max(ValidBefore(vs, i)) IN
             IF ValidAfter(vs, i) = {} THEN vs[p]
             ELSE Lerp(vs[p], vs[Min(ValidAfter(vs, i))],
                       i - p, Min(ValidAfter(vs, i)) - p)]

\* fillna(method='ffill')
ForwardFill(vs) ==
    [i \in 1..Len(vs) |->
        IF ~IsNaN(vs[i]) THEN vs[i]
        ELSE IF ValidBefore(vs, i) = {} THEN NaN
        ELSE vs[Max(ValidBefore(vs, i))]]

\* The value column of the rows.
ValueColumn(rows) == [i \in 1..Len(rows) |-> rows[i].value]

\* df['value'] = vs
WithValues(rows, vs) == [i \in 1..Len(rows) |-> [rows[i] EXCEPT !.value = vs[i]]]

\* handle_missing_values of src/utils/data_models.py
handle_missing_values(df, method) ==
    IF IsEmpty(df) THEN Ok(df)
    ELSE IF method = "drop" THEN Ok(DataFrame(df.columns, DropNa(df.rows)))
    ELSE IF method = "interpolate"
    THEN Ok(DataFrame(df.columns,
                      DropNa(WithValues(df.rows, Interpolate(ValueColumn(df.rows))))))
    ELSE IF method = "forward_fill"
    THEN Ok(DataFrame(df.columns,
                      DropNa(WithValues(df.rows, ForwardFill(ValueColumn(df.rows))))))
    ELSE Raise("ValueError", "Unknown method for handling missing values")

\* What WorldBankClient.get_gini_data does with the entries of a response.
GiniPipeline(gini_data, country_code) ==
    handle_missing_values(
        clean_gini_data(convert_api_response_to_dataframe(gini_data, country_code)),
        "drop").value

(***************************************************************************)
(* The adapters as a state machine: a response is received entry by entry  *)
(* and handed to one of the adapters.                                      *)
(***************************************************************************)
\* The 'date' and 'value' of the entries.
DateCells == {Str("2019"), Str("2020"), Str("1950"), Str("invalid"), None}
ValueCells ==
    {Rat(355, 10), Rat(355, 1000), Rat(35554, 100000), Rat(5, 1000), Rat(150, 1), None}

\* The country_code the caller passes.
CountryParams == {"usa", "DEU"}

AddEntry ==
    /\ fn = "none"
    /\ Len(arg) < MaxEntries
    /\ \E d \in DateCells, v \in ValueCells :
           arg' = Append(arg, [date |-> d, value |-> v])
    /\ UNCHANGED <<fn, ret>>
    /\ UNCHANGED metricVars

CallConvert ==
    /\ fn = "none"
    /\ fn' = "convert_api_response_to_dataframe"
    /\ \E country_code \in CountryParams :
           ret' = convert_api_response_to_dataframe(arg, country_code)
    /\ UNCHANGED arg
    /\ UNCHANGED metricVars

CallFormat ==
    /\ fn = "none"
    /\ fn' = "format_gini_data"
    /\ ret' = format_gini_data(arg)
    /\ UNCHANGED arg
    /\ UNCHANGED metricVars

CallGetGiniData ==
    /\ fn = "none"
    /\ fn' = "get_gini_data"
    /\ \E country_code \in CountryParams :
           ret' = GiniPipeline(arg, country_code)
    /\ UNCHANGED arg
    /\ UNCHANGED metricVars

NextAdapter ==
    \/ AddEntry
    \/ CallConvert
    \/ CallFormat
    \/ CallGetGiniData

SpecAdapter == Init /\ [][NextAdapter]_vars

(***************************************************************************)
(* handle_missing_values as a state machine: a table of consecutive years  *)
(* is built row by row and handled with one of the methods.                *)
(***************************************************************************)
\* Most rows of the table.
MaxSeries == 4

\* The year of the first row.
FirstYear == 2018

\* The value cells of the rows.
SeriesCells == {Rat(355, 10), Rat(36, 1), NaN}

Methods == {"drop", "interpolate", "forward_fill", "mean"}

AddSeriesRow ==
    /\ fn = "none"
    /\ Len(arg) < MaxSeries
    /\ \E v \in SeriesCells :
           arg' = Append(arg, [year |-> FirstYear + Len(arg), value |-> v,
                               country_code |-> "USA"])
    /\ UNCHANGED <<fn, ret>>
    /\ UNCHANGED metricVars

CallHandleMissing ==
    /\ fn = "none"
    /\ \E method \in Methods :
           ret' = [method |-> method,
                   out |-> handle_missing_values(DataFrame(GiniColumns, arg), method)]
    /\ fn' = "handle_missing_values"
    /\ UNCHANGED arg
    /\ UNCHANGED metricVars

NextMissing ==
    \/ AddSeriesRow
    \/ CallHandleMissing

SpecMissing == Init /\ [][NextMissing]_vars

(***************************************************************************)
(* validate_inequality_metrics as a state machine: a table of metric       *)
(* columns is built row by row and validated.  A row carries its index     *)
(* label, which the filters keep.                                          *)
(***************************************************************************)
\* df[(df[col] >= 0) & (df[col] <= 1)]; a comparison with NaN is False
InUnitRange(x) == ~IsNaN(x) /\ RatLeq(Zero, x) /\ RatLeq(x, One)

\* (df[col] < 0) | (df[col] > 1)
OutsideUnitRange(x) == ~IsNaN(x) /\ (RatLess(x, Zero) \/ RatLess(One, x))

\* The filter that tests only the lower end of the range.
FilterUnitRangeLowerOnly(df, col) ==
    IF col \notin df.columns THEN df
    ELSE IF \E i \in 1..Len(df.rows) : OutsideUnitRange(df.rows[i][col])
    THEN DataFrame(df.columns,
                   SelectSeq(df.rows, LAMBDA r : ~IsNaN(r[col]) /\ RatLeq(Zero, r[col])))
    ELSE df

\* The test of one gini or share column: the filter runs only when a row
\* is invalid.
FilterUnitRange(df, col) ==
    IF col \notin df.columns THEN df
    ELSE IF \E i \in 1..Len(df.rows) : OutsideUnitRange(df.rows[i][col])
    THEN DataFrame(df.columns, SelectSeq(df.rows, LAMBDA r : InUnitRange(r[col])))
    ELSE df

\* The test of palma_ratio.
FilterPalma(df) ==
    IF "palma_ratio" \notin df.columns THEN df
    ELSE IF \E i \in 1..Len(df.rows) :
                ~IsNaN(df.rows[i].palma_ratio) /\ RatLess(df.rows[i].palma_ratio, Zero)
    THEN DataFrame(df.columns,
                   SelectSeq(df.rows, LAMBDA r : ~IsNaN(r.palma_ratio)
                                                 /\ RatLeq(Zero, r.palma_ratio)))
    ELSE df

\* share_columns
share_columns == <<"top_10_share", "bottom_50_share", "top_1_share">>

validate_inequality_metrics(df) ==
    LET gini_valid == FilterUnitRange(df, "gini")
        s1 == FilterUnitRange(gini_valid, share_columns[1])
        s2 == FilterUnitRange(s1, share_columns[2])
        s3 == FilterUnitRange(s2, share_columns[3])
    IN  FilterPalma(s3)

\* The columns a table can have, and the cells of its rows.
MetricColumnSets ==
    {{"gini"}, {"gini", "top_10_share"}, {"bottom_50_share"}, {"top_1_share", "palma_ratio"}}
UnitCells == {Rat(-1, 10), Rat(4, 10), Rat(15, 10), NaN}
PalmaCells == {Rat(-1, 1), Rat(2, 1), NaN}

\* The rows a table with the columns cols can have at index label i.
MetricRows(cols, i) ==
    {DictSet(cells, "index", i) :
        cells \in {f \in [cols -> UnitCells \cup PalmaCells] :
                      \A c \in cols : IF c = "palma_ratio" THEN f[c] \in PalmaCells
                                        ELSE f[c] \in UnitCells}}

AddMetricRow ==
    /\ fn = "none"
    /\ Len(arg) < MaxRows
    /\ \E cols \in (IF arg = <<>> THEN MetricColumnSets
                    ELSE {DOMAIN arg[1] \ {"index"}}) :
           \E r \in MetricRows(cols, Len(arg)) : arg' = Append(arg, r)
    /\ UNCHANGED <<fn, ret>>
    /\ UNCHANGED metricVars

CallValidate ==
    /\ fn = "none"
    /\ arg # <<>>
    /\ fn' = "validate_inequality_metrics"
    /\ ret' = validate_inequality_metrics(DataFrame(DOMAIN arg[1] \ {"index"}, arg))
    /\ UNCHANGED arg
    /\ UNCHANGED metricVars

NextValidate ==
    \/ AddMetricRow
    \/ CallValidate

SpecValidate == Init /\ [][NextValidate]_vars

(***************************************************************************)
(* normalize_country_codes as a state machine: a table with a              *)
(* country_code column is built row by row and normalized.                 *)
(***************************************************************************)
\* The values of the country_code column.
RawCountryCells ==
    {Str("US"), Str("USA"), Str("United States"), Str("Narnia"), Str("usa"),
     Padded("US"), Padded("XYZ"), None}

\* The country_column the caller names.
CountryColumns == {"country_code", "country"}

AddCountryRow ==
    /\ fn = "none"
    /\ Len(arg) < MaxRows
    /\ \E c \in RawCountryCells : arg' = Append(arg, [country_code |-> c])
    /\ UNCHANGED <<fn, ret>>
    /\ UNCHANGED metricVars

CallNormalize ==
    /\ fn = "none"
    /\ arg # <<>>
    /\ fn' = "normalize_country_codes"
    /\ \E country_column \in CountryColumns :
           ret' = [country_column |-> country_column,
                   df |-> normalize_country_codes(DataFrame({"country_code"}, arg),
                                                  country_column)]
    /\ UNCHANGED arg
    /\ UNCHANGED metricVars

NextNormalize ==
    \/ AddCountryRow
    \/ CallNormalize

SpecNormalize == Init /\ [][NextNormalize]_vars

(***************************************************************************)
(* clean_gini_data as a state machine: a table of year, value and          *)
(* country_code is built row by row and cleaned.                           *)
(***************************************************************************)
\* The cells of the rows.
RawYears == {1950, 2018, 2020}
RawValues == {Rat(355, 10), Rat(37, 100), Rat(150, 1)}
RawCodes == {"usa", "USA"}

AddGiniRow ==
    /\ fn = "none"
    /\ Len(arg) < MaxRows
    /\ \E y \in RawYears, v \in RawValues, c \in RawCodes :
           arg' = Append(arg, [year |-> y, value |-> v, country_code |-> c])
    /\ UNCHANGED <<fn, ret>>
    /\ UNCHANGED metricVars

CallCleanGini ==
    /\ fn = "none"
    /\ fn' = "clean_gini_data"
    /\ ret' = clean_gini_data(DataFrame(GiniColumns, arg))
    /\ UNCHANGED arg
    /\ UNCHANGED metricVars

NextClean ==
    \/ AddGiniRow
    \/ CallCleanGini

SpecClean == Init /\ [][NextClean]_vars

(***************************************************************************)
(* add_derived_metrics, and the two stages as a state machine: a table of  *)
(* top_10_share and bottom_50_share is built row by row, validated and     *)
(* augmented.                                                              *)
(***************************************************************************)
\* a / b of two float cells, as pandas divides: NaN if one is NaN or both
\* are 0, an infinity if only b is 0
SeriesDiv(a, b) ==
    IF IsNaN(a) \/ IsNaN(b) THEN NaN
    ELSE IF b.n = 0 THEN (IF a.n = 0 THEN NaN
                          ELSE IF a.n > 0 THEN Infinity ELSE Rat(-1, 0))
    ELSE RatDiv(a, b)

\* 1 - a - b of two float cells
OneMinusBoth(a, b) ==
    IF IsNaN(a) \/ IsNaN(b) THEN NaN
    ELSE Rat(a.d * b.d - a.n * b.d - b.n * a.d, a.d * b.d)

add_derived_metrics(df) ==
    LET has_shares == {"top_10_share", "bottom_50_share"} \subseteq df.columns
        with_palma ==
            IF "palma_ratio" \notin df.columns /\ has_shares
            THEN WithColumn(df, "palma_ratio",
                            [i \in 1..Len(df.rows) |->
                                SeriesDiv(df.rows[i].top_10_share,
                                          df.rows[i].bottom_50_share)])
            ELSE df
        with_middle ==
            IF has_shares
            THEN WithColumn(with_palma, "middle_40_share",
                            [i \in 1..Len(df.rows) |->
                                OneMinusBoth(df.rows[i].top_10_share,
                                             df.rows[i].bottom_50_share)])
            ELSE with_palma
    IN  IF {"top_10_share", "bottom_10_share"} \subseteq df.columns
        THEN WithColumn(with_middle, "inequality_ratio",
                        [i \in 1..Len(df.rows) |->
                            SeriesDiv(df.rows[i].top_10_share,
                                      df.rows[i].bottom_10_share)])
        ELSE with_middle

\* The share cells of the rows.
ShareCells == {Rat(4, 10), Rat(8, 10), Rat(15, 10), NaN}

\* The columns of the table next to the two shares.
ExtraColumnSets == {{}, {"gini"}}

AddShareRow ==
    /\ fn = "none"
    /\ Len(arg) < MaxRows
    /\ \E t \in ShareCells, b \in ShareCells :
       \E extra \in (IF arg = <<>> THEN ExtraColumnSets
                     ELSE {DOMAIN arg[1] \ {"index", "top_10_share", "bottom_50_share"}}) :
           LET shares == [index |-> Len(arg), top_10_share |-> t, bottom_50_share |-> b]
           IN  arg' = Append(arg, IF "gini" \in extra
                                  THEN DictSet(shares, "gini", Rat(4, 10))
                                  ELSE shares)
    /\ UNCHANGED <<fn, ret>>
    /\ UNCHANGED metricVars

CallValidateAndDerive ==
    /\ fn = "none"
    /\ arg # <<>>
    /\ fn' = "add_derived_metrics"
    /\ ret' = add_derived_metrics(
                  validate_inequality_metrics(DataFrame(DOMAIN arg[1] \ {"index"}, arg)))
    /\ UNCHANGED arg
    /\ UNCHANGED metricVars

NextDerive ==
    \/ AddShareRow
    \/ CallValidateAndDerive

SpecDerive == Init /\ [][NextDerive]_vars

(***************************************************************************)
(* fetch_all_sources_data of src/src/data_fetch.py, step by step: the four *)
(* sources are asked in turn.  What a source does is up to the network and *)
(* the cache: it returns a table, an empty table, or raises DataFetchError *)
(* (each fetch function wraps every exception in it).                      *)
(***************************************************************************)
DataFetchError == Raise("DataFetchError", "Failed to fetch data")

\* A table a source returns for the country.
SourceTable(source, country_code) ==
    DataFrame({"country_code", "year", "gini", "source"},
              <<[country_code |-> Upper(country_code), year |-> 2020,
                 gini |-> Rat(42, 100), source |-> source]>>)

\* What a source can do when it is asked.
SourceOutcomes(source, country_code) ==
    {Ok(SourceTable(source, country_code)), Ok(EmptyFrame), DataFetchError}

\* A call without the try statement around it.
Unguarded(outcome) == outcome

\* try: results[...] = fetch(...)  except DataFetchError: results[...] =
\* pd.DataFrame(); an exception of another class goes on to the caller
Guarded(outcome) ==
    IF outcome.ok THEN outcome
    ELSE IF outcome.exc = "DataFetchError" THEN Ok(EmptyFrame)
    ELSE outcome

\* eu_countries of fetch_all_sources_data
eu_countries == {"DEU", "FRA", "ITA", "ESP", "NLD", "SWE", "NOR", "DNK", "FIN"}

\* The country codes the caller passes.
FetchCountries == {"USA", "usa", "DEU", "deu", "XYZ"}

\* The step after asking a source.
StepAfter(source) ==
    IF source = "world_bank" THEN "oecd"
    ELSE IF source = "oecd" THEN "wid"
    ELSE IF source = "wid" THEN "eurostat"
    ELSE "fetch_all_sources_data"

\* results = {}
StartFetchAll ==
    /\ fn = "none"
    /\ \E country_code \in FetchCountries : arg' = [country_code |-> country_code]
    /\ fn' = "world_bank"
    /\ ret' = [results |-> EmptyDict, asked |-> {}, failed |-> {}]
    /\ UNCHANGED metricVars

\* One of the three try statements that ask a source for every country.
FetchSource ==
    /\ fn \in {"world_bank", "oecd", "wid"}
    /\ \E outcome \in SourceOutcomes(fn, arg.country_code) :
           LET caught == Guarded(outcome) IN
           IF caught.ok
           THEN /\ ret' = [results |-> DictSet(ret.results, fn, caught.value),
                           asked |-> ret.asked \cup {fn},
                           failed |-> ret.failed \cup (IF outcome.ok THEN {} ELSE {fn})]
                /\ fn' = StepAfter(fn)
           ELSE /\ ret' = [ret EXCEPT !.asked = @ \cup {fn}, !.failed = @ \cup {fn}]
                /\ fn' = "raised"
    /\ UNCHANGED arg
    /\ UNCHANGED metricVars

\* The Eurostat source is asked for the countries of eu_countries.
FetchEurostat ==
    /\ fn = "eurostat"
    /\ Upper(arg.country_code) \in eu_countries
    /\ \E outcome \in SourceOutcomes(fn, arg.country_code) :
           LET caught == Guarded(outcome) IN
           IF caught.ok
           THEN /\ ret' = [results |-> DictSet(ret.results, fn, caught.value),
                           asked |-> ret.asked \cup {fn},
                           failed |-> ret.failed \cup (IF outcome.ok THEN {} ELSE {fn})]
                /\ fn' = StepAfter(fn)
           ELSE /\ ret' = [ret EXCEPT !.asked = @ \cup {fn}, !.failed = @ \cup {fn}]
                /\ fn' = "raised"
    /\ UNCHANGED arg
    /\ UNCHANGED metricVars

\* For any other country results['eurostat'] is an empty table.
SkipEurostat ==
    /\ fn = "eurostat"
    /\ Upper(arg.country_code) \notin eu_countries
    /\ ret' = [ret EXCEPT !.results = DictSet(@, "eurostat", EmptyFrame)]
    /\ fn' = StepAfter(fn)
    /\ UNCHANGED arg
    /\ UNCHANGED metricVars

NextFetchAll ==
    \/ StartFetchAll
    \/ FetchSource
    \/ FetchEurostat
    \/ SkipEurostat

SpecFetchAll == Init /\ [][NextFetchAll]_vars

(***************************************************************************)
(* The response cache of WorldBankClient (src/utils/data_service.py).  The *)
(* client is its cache and the clock it reads; a call is one step, and     *)
(* what an HTTP request of the call returns is up to the network.  A       *)
(* payload carries the time it was fetched, which tells a cached value     *)
(* from a fresh one.                                                       *)
(***************************************************************************)
\* self.cache_ttl, in seconds
cache_ttl == 3600

\* The clock stops here.
MaxTime == 3600

\* The time that passes between two calls.
TickSteps == {1800, 3600}

\* Classes of exception _make_request raises: one the callers pass on and
\* get_gini_data tolerates in the country lookup, and one they wrap.
RequestErrors == {"APIConnectionError", "WorldBankAPIError"}

\* The countries of a non-empty /country response.
CountryList == {"USA", "DEU"}

\* What a request to /country and to the indicator can come back with; the
\* payload of a raised exception does not matter.
CountryResponses ==
    {Ok(CountryList), Ok({})} \cup {Raise(c, "request failed") : c \in RequestErrors}
GiniResponses ==
    {Ok("data"), Ok("no data")} \cup {Raise(c, "request failed") : c \in RequestErrors}

\* _is_cache_valid
IsCacheValid(cache, now, cache_key) ==
    IF cache_key \notin DOMAIN cache THEN FALSE
    ELSE now - cache[cache_key].timestamp < cache_ttl

\* What a call leaves behind: its outcome, the cache, and the requests it
\* issued.
CallResult(outcome, cache, requests) ==
    [outcome |-> outcome, cache |-> cache, requests |-> requests]

\* get_countries, net being what its request comes back with
get_countries(cache, now, net) ==
    IF IsCacheValid(cache, now, "countries")
    THEN CallResult(Ok(cache["countries"].data), cache, <<>>)
    ELSE IF ~net.ok
    THEN IF net.exc \in {"APIConnectionError", "APIRateLimitError", "DataNotAvailableError"}
         THEN CallResult(net, cache, <<"country">>)
         ELSE CallResult(Raise("WorldBankAPIError", "Failed to fetch countries"),
                         cache, <<"country">>)
    ELSE IF net.value = {}
    THEN CallResult(Raise("DataNotAvailableError", "No countries data received"),
                    cache, <<"country">>)
    ELSE LET countries == [kind |-> "countries", codes |-> net.value, fetched |-> now]
         IN  CallResult(Ok(countries),
                        DictSet(cache, "countries",
                                [data |-> countries, timestamp |-> now]),
                        <<"country">>)

\* validate_country_code of the codes of the model: three letters
validate_country_code(code) == code \in {"USA", "usa", "DEU", "ZZZ"}

\* cache_key of get_gini_data
GiniKey(country_code, start_year, end_year) ==
    "gini_" \o Upper(country_code) \o "_" \o ToString(start_year)
        \o "_" \o ToString(end_year)

\* The part of get_gini_data after the country was looked up: the cache
\* test, the request and the cache write.
GiniAfterLookup(cache, now, requests, country_code, start_year, end_year, net) ==
    LET cache_key == GiniKey(country_code, start_year, end_year)
        indicator == <<"country/" \o country_code \o "/indicator/SI.POV.GINI">>
    IN  IF IsCacheValid(cache, now, cache_key)
        THEN CallResult(Ok(cache[cache_key].data), cache, requests)
        ELSE IF ~net.ok
        THEN IF net.exc \in {"APIConnectionError", "APIRateLimitError",
                             "DataNotAvailableError", "InvalidCountryError"}
             THEN CallResult(net, cache, requests \o indicator)
             ELSE CallResult(Raise("WorldBankAPIError", "Failed to fetch Gini data"),
                             cache, requests \o indicator)
        ELSE IF net.value = "no data"
        THEN CallResult(Raise("DataNotAvailableError", "No Gini coefficient data available"),
                        cache, requests \o indicator)
        ELSE LET df == [kind |-> "gini", key |-> cache_key, fetched |-> now]
             IN  CallResult(Ok(df),
                            DictSet(cache, cache_key, [data |-> df, timestamp |-> now]),
                            requests \o indicator)

\* get_gini_data, net_countries and net_gini being what its requests come
\* back with
get_gini_data(cache, now, country_code, start_year, end_year, net_countries, net_gini) ==
    IF ~validate_country_code(country_code)
    THEN CallResult(Raise("InvalidCountryError", "Invalid country code format"), cache, <<>>)
    ELSE IF ~(MinYear <= start_year /\ start_year <= MaxYear)
            \/ ~(MinYear <= end_year /\ end_year <= MaxYear)
    THEN CallResult(Raise("ValueError", "Invalid year range"), cache, <<>>)
    ELSE IF start_year > end_year
    THEN CallResult(Raise("ValueError", "Start year cannot be greater than end year"),
                    cache, <<>>)
    ELSE LET looked_up == get_countries(cache, now, net_countries) IN
         IF looked_up.outcome.ok
         THEN IF Upper(country_code) \notin {Upper(c) : c \in looked_up.outcome.value.codes}
              THEN CallResult(Raise("InvalidCountryError", "Country code not found"),
                              looked_up.cache, looked_up.requests)
              ELSE GiniAfterLookup(looked_up.cache, now, looked_up.requests,
                                   country_code, start_year, end_year, net_gini)
         ELSE IF looked_up.outcome.exc \in {"APIConnectionError", "APIRateLimitError"}
         THEN GiniAfterLookup(looked_up.cache, now, looked_up.requests,
                              country_code, start_year, end_year, net_gini)
         ELSE looked_up

\* The arguments of get_gini_data.
ClientCountries == {"USA", "usa", "ZZZ", "US"}
YearRanges == {<<1990, 2023>>, <<2023, 1990>>, <<1950, 2023>>}

\* What a step records next to the client: the outcome of the call, the
\* requests it issued, its cache key and the cache before it.
Recorded(res, cache_key, before) ==
    [outcome |-> res.outcome, requests |-> res.requests,
     key |-> cache_key, before |-> before]

\* WorldBankClient()
NewClient ==
    /\ fn = "none"
    /\ arg = <<>>
    /\ arg' = [cache |-> EmptyDict, now |-> 0]
    /\ fn' = "WorldBankClient"
    /\ ret' = Recorded(CallResult(NoResult, EmptyDict, <<>>), "none", EmptyDict)
    /\ UNCHANGED metricVars

\* Time passes between two calls.
Tick ==
    /\ fn \in {"WorldBankClient", "get_countries", "get_gini_data"}
    /\ \E dt \in TickSteps :
           /\ arg.now + dt <= MaxTime
           /\ arg' = [arg EXCEPT !.now = @ + dt]
    /\ fn' = "WorldBankClient"
    /\ ret' = Recorded(CallResult(NoResult, arg.cache, <<>>), "none", arg.cache)
    /\ UNCHANGED metricVars

CallGetCountries ==
    /\ fn \in {"WorldBankClient", "get_countries", "get_gini_data"}
    /\ \E net \in CountryResponses :
           LET res == get_countries(arg.cache, arg.now, net) IN
           /\ arg' = [arg EXCEPT !.cache = res.cache]
           /\ ret' = Recorded(res, "countries", arg.cache)
    /\ fn' = "get_countries"
    /\ UNCHANGED metricVars

CallClientGini ==
    /\ fn \in {"WorldBankClient", "get_countries", "get_gini_data"}
    /\ \E country_code \in ClientCountries, range \in YearRanges,
          net_countries \in CountryResponses, net_gini \in GiniResponses :
           LET res == get_gini_data(arg.cache, arg.now, country_code, range[1], range[2],
                                    net_countries, net_gini) IN
           /\ arg' = [arg EXCEPT !.cache = res.cache]
           /\ ret' = Recorded(res, GiniKey(country_code, range[1], range[2]), arg.cache)
    /\ fn' = "get_gini_data"
    /\ UNCHANGED metricVars

NextCache ==
    \/ NewClient
    \/ Tick
    \/ CallGetCountries
    \/ CallClientGini

SpecCache == Init /\ [][NextCache]_vars

(***************************************************************************)
(* WorldBankClient._make_request: the retry loop.  Each attempt is a step; *)
(* what requests.get and the response do in it is up to the network.       *)
(***************************************************************************)
max_retries == 3
retry_delay == 1

\* What can happen in one attempt: requests.get raises, the status code is
\* a special one, raise_for_status raises, the body does not parse, the
\* envelope carries a message or is malformed, or the data is returned.
TransportEvents == {"ConnectionError", "Timeout", "HTTPError", "RequestException"}
ResponseEvents ==
    {"429", "503", "500", "404", "invalid json", "message not found", "message other",
     "invalid format", "data"}
AttemptEvents == TransportEvents \cup ResponseEvents

\* What the try block of an attempt does: it returns the data or raises;
\* the transport exceptions are those of the requests library.
TryBlock(event) ==
    CASE event = "data" -> Ok("data")
      [] event = "429" -> Raise("APIRateLimitError", "API rate limit exceeded")
      [] event = "503" -> Raise("APIConnectionError", "temporarily unavailable")
      [] event = "500" -> Raise("APIConnectionError", "server error")
      [] event = "404" -> Raise("HTTPError", "404")
      [] event = "invalid json" -> Raise("WorldBankAPIError", "Invalid JSON response")
      [] event = "message not found" -> Raise("DataNotAvailableError", "World Bank API error")
      [] event = "message other" -> Raise("WorldBankAPIError", "World Bank API error")
      [] event = "invalid format" -> Raise("WorldBankAPIError", "Invalid response format")
      [] OTHER -> Raise(event, "transport")

\* The except clause that handles an exception of the try block, by the
\* order of the clauses: what it raises, or NoResult when it sleeps and the
\* loop goes on.
ExceptClause(raised, attempt) ==
    LET last == attempt = max_retries - 1 IN
    CASE raised.exc = "ConnectionError" ->
             IF last THEN Raise("APIConnectionError", "Unable to connect") ELSE NoResult
      [] raised.exc = "Timeout" ->
             IF last THEN Raise("APIConnectionError", "timed out") ELSE NoResult
      [] raised.exc = "HTTPError" ->
             IF raised.msg = "404"
             THEN Raise("DataNotAvailableError", "Requested data not found")
             ELSE IF last THEN Raise("APIConnectionError", "HTTP error") ELSE NoResult
      [] raised.exc \in {"APIConnectionError", "APIRateLimitError", "DataNotAvailableError"} ->
             raised
      [] raised.exc = "RequestException" ->
             IF last THEN Raise("APIConnectionError", "Failed to connect") ELSE NoResult
      [] OTHER ->
             IF last THEN Raise("WorldBankAPIError", "Unexpected error occurred")
             ELSE NoResult

\* One pass of the loop body.
Attempted(event, attempt) ==
    LET tried == TryBlock(event) IN
    IF tried.ok THEN tried ELSE ExceptClause(tried, attempt)

\* _make_request is called.
StartRequest ==
    /\ fn = "none"
    /\ arg = <<>>
    /\ arg' = [attempt |-> 0, events |-> <<>>, slept |-> <<>>]
    /\ fn' = "_make_request"
    /\ ret' = NoResult
    /\ UNCHANGED metricVars

\* An attempt that ends the call.
AttemptEnds ==
    /\ fn = "_make_request"
    /\ arg.attempt < max_retries
    /\ \E event \in AttemptEvents :
           /\ Attempted(event, arg.attempt) # NoResult
           /\ arg' = [arg EXCEPT !.events = Append(@, event)]
           /\ ret' = Attempted(event, arg.attempt)
           /\ fn' = IF ret'.ok THEN "return" ELSE "raise"
    /\ UNCHANGED metricVars

\* An attempt after which the loop sleeps and goes on.
AttemptRetries ==
    /\ fn = "_make_request"
    /\ arg.attempt < max_retries
    /\ \E event \in AttemptEvents :
           /\ Attempted(event, arg.attempt) = NoResult
           /\ arg' = [attempt |-> arg.attempt + 1,
                      events |-> Append(arg.events, event),
                      slept |-> Append(arg.slept, retry_delay * 2 ^ arg.attempt)]
    /\ UNCHANGED <<fn, ret>>
    /\ UNCHANGED metricVars

NextRequest ==
    \/ StartRequest
    \/ AttemptEnds
    \/ AttemptRetries

SpecRequest == Init /\ [][NextRequest]_vars

(***************************************************************************)
(* fetch_world_bank_gini and its file cache (src/src/data_fetch.py,        *)
(* src/src/utils.py).  The data directory maps a file name to the table    *)
(* saved under it; the source is what the API holds, an item per year,     *)
(* newest first, with value None where nothing was reported.               *)
(***************************************************************************)
WorldBankSource(country_code) ==
    IF country_code = "USA"
    THEN << [date |-> "2020", value |-> Rat(397, 10)],
            [date |-> "2015", value |-> None],
            [date |-> "2010", value |-> Rat(400, 10)] >>
    ELSE << [date |-> "2015", value |-> Rat(317, 10)] >>

\* int(item['date']) of the dates of the source
IntOfDate(text) == CHOOSE y \in 2010..2020 : ToString(y) = text

\* The arguments of the calls.
FetchCodes == {"USA", "DEU"}
FetchYears == {2010, 2015, 2018, 2020}

\* data[1] of the response to a request with date=start_year:end_year
ResponseItems(country_code, start_year, end_year) ==
    SelectSeq(WorldBankSource(country_code),
              LAMBDA item : start_year <= IntOfDate(item.date)
                            /\ IntOfDate(item.date) <= end_year)

RECURSIVE Records(_, _)
\* The loop over data[1] that builds the records.
Records(items, country_code) ==
    IF items = <<>> THEN <<>>
    ELSE LET item == Head(items)
             rest == Records(Tail(items), country_code)
         IN  IF item.value # None
             THEN << [country_code |-> country_code,
                      country_name |-> get_country_name(country_code),
                      year |-> IntOfDate(item.date),
                      gini |-> item.value,
                      source |-> "World Bank"] >> \o rest
             ELSE rest

GiniRecordColumns == {"country_code", "country_name", "year", "gini", "source"}

\* Texts pd.read_csv reads as missing.
NaStrings == {"", "NA", "N/A", "NULL", "NaN", "nan", "null", "None"}

\* A text cell written by to_csv and read back by read_csv.
CsvText(text) == IF text \in NaStrings THEN "nan" ELSE text

\* df.to_csv(index=False) followed by pd.read_csv: numbers come back as
\* they were, texts by CsvText.
CsvRoundTrip(df) ==
    DataFrame(df.columns,
              [i \in 1..Len(df.rows) |->
                  [df.rows[i] EXCEPT !.country_code = CsvText(@),
                                     !.country_name = CsvText(@),
                                     !.source = CsvText(@)]])

\* cache_file
WorldBankCacheFile(country_code) == "world_bank_gini_" \o country_code \o ".csv"

\* load_dataframe: None for a file that is not there
load_dataframe(files, filename) ==
    IF filename \in DOMAIN files THEN files[filename] ELSE None

\* save_dataframe
save_dataframe(files, df, filename) == DictSet(files, filename, CsvRoundTrip(df))

\* cached_df is not None and not cached_df.empty
CacheHits(cached_df) == cached_df # None /\ ~IsEmpty(cached_df)

\* fetch_world_bank_gini with end_year given; reached tells whether the
\* request succeeds.  Its result and the data directory after it.
fetch_world_bank_gini(files, country_code, start_year, end_year, reached) ==
    LET cache_file == WorldBankCacheFile(country_code)
        cached_df == load_dataframe(files, cache_file)
    IN  IF CacheHits(cached_df)
        THEN [outcome |-> Ok(DataFrame(cached_df.columns,
                                       SelectSeq(cached_df.rows,
                                                 LAMBDA r : r.year >= start_year
                                                            /\ r.year <= end_year))),
              files |-> files]
        ELSE IF ~reached
        THEN [outcome |-> DataFetchError, files |-> files]
        ELSE LET items == ResponseItems(country_code, start_year, end_year)
                 records == Records(items, country_code)
             IN  IF items = <<>>
                 THEN [outcome |-> Ok(EmptyFrame), files |-> files]
                 ELSE IF records = <<>>
                 THEN [outcome |-> Ok(EmptyFrame), files |-> files]
                 ELSE LET df == DataFrame(GiniRecordColumns, records)
                      IN  [outcome |-> Ok(df),
                           files |-> save_dataframe(files, df, cache_file)]

\* A call of fetch_world_bank_gini; arg is the data directory.
CallFetchWorldBank ==
    /\ fn \in {"none", "fetch_world_bank_gini"}
    /\ \E country_code \in FetchCodes, start_year \in FetchYears,
          end_year \in FetchYears, reached \in BOOLEAN :
           /\ start_year <= end_year
           /\ LET res == fetch_world_bank_gini(arg, country_code, start_year,
                                               end_year, reached) IN
              /\ arg' = res.files
              /\ ret' = [country_code |-> country_code, start_year |-> start_year,
                         end_year |-> end_year, outcome |-> res.outcome]
    /\ fn' = "fetch_world_bank_gini"
    /\ UNCHANGED metricVars

NextFileCache ==
    \/ CallFetchWorldBank

SpecFileCache == Init /\ [][NextFileCache]_vars

(***************************************************************************)
(* clean_inequality_data on tables whose country column is spelled in one  *)
(* of the accepted ways, and standardize_column_names on lists of headers. *)
(***************************************************************************)
\* The spellings of the country column and the cells under it.
CountryHeaders == {"country_code", "Country", "Country Code"}
AliasCells == {Str("US"), Str("USA"), Str("Germany"), None}

\* A raw table gets a row; the first row fixes the spelling of the header.
AddRawRow ==
    /\ fn = "none"
    /\ \E header \in CountryHeaders, country \in AliasCells, year \in YearValues :
           LET row == DictSet(DictSet(EmptyDict, header, country), "year", year) IN
           IF arg = <<>>
           THEN arg' = DataFrame({header, "year"}, <<row>>)
           ELSE /\ Len(arg.rows) < MaxRows
                /\ header \in arg.columns
                /\ arg' = DataFrame(arg.columns, Append(arg.rows, row))
    /\ UNCHANGED <<fn, ret>>
    /\ UNCHANGED metricVars

CallCleanInequality ==
    /\ fn = "none"
    /\ arg # <<>>
    /\ fn' = "clean_inequality_data"
    /\ ret' = clean_inequality_data(arg)
    /\ UNCHANGED arg
    /\ UNCHANGED metricVars

NextHeaders ==
    \/ AddRawRow
    \/ CallCleanInequality

SpecHeaders == Init /\ [][NextHeaders]_vars

\* The headers a table comes with, and how many of them.
MaxColumns == 3
Headers ==
    {"country_code", "Country", "Country Code", "Year", "year", "Gini", "GiniIndex",
     "Region", "Income Group"}

\* A table gets one more column, named differently from those it has.
AddColumn ==
    /\ fn = "none"
    /\ Len(arg) < MaxColumns
    /\ \E header \in Headers :
           /\ \A i \in 1..Len(arg) : arg[i] # header
           /\ arg' = Append(arg, header)
    /\ UNCHANGED <<fn, ret>>
    /\ UNCHANGED metricVars

CallStandardize ==
    /\ fn = "none"
    /\ fn' = "standardize_column_names"
    /\ ret' = StandardNames(arg)
    /\ UNCHANGED arg
    /\ UNCHANGED metricVars

NextColumns ==
    \/ AddColumn
    \/ CallStandardize

SpecColumns == Init /\ [][NextColumns]_vars

(***************************************************************************)
(* validate_year_range (src/src/utils.py).                                 *)
(***************************************************************************)
\* The year below which start_year is raised.
EarliestYear == 1960

\* What pd.Timestamp.now().year can be when the call is made.
CurrentYears == {2026, 2027}

\* The years the callers pass.
YearInputs == {1900, 1959, 1960, 1961, 2000, 2026, 2027, 2028, 2100}

\* validate_year_range, current_year being the year of the clock
validate_year_range(start_year, end_year, current_year) ==
    LET start == IF start_year < EarliestYear THEN EarliestYear ELSE start_year
        end == IF end_year > current_year THEN current_year ELSE end_year
    IN  IF start > end THEN <<end, start>> ELSE <<start, end>>

CallValidateYearRange ==
    /\ fn \in {"none", "validate_year_range"}
    /\ \E start_year \in YearInputs, end_year \in YearInputs, current_year \in CurrentYears :
           /\ arg' = <<start_year, end_year>>
           /\ ret' = [current_year |-> current_year,
                      range |-> validate_year_range(start_year, end_year, current_year)]
    /\ fn' = "validate_year_range"
    /\ UNCHANGED metricVars

NextYearRange ==
    \/ CallValidateYearRange

SpecYearRange == Init /\ [][NextYearRange]_vars

(***************************************************************************)
(* Properties.                                                             *)
(***************************************************************************)
\* The sample holds at least one strictly positive value.
HasPositive == \E i \in 1..Len(values) : values[i] > 0

\* The sample is not empty and none of its values is strictly positive.
NonePositive == values # <<>> /\ \A i \in 1..Len(values) : values[i] <= 0

\* The number of strictly positive values of the sample.
NumPositive == Cardinality({i \in 1..Len(values) : values[i] > 0})

\* The sub-sample of the strictly positive values, in the sample's order.
PositivePart == SelectSeq(values, LAMBDA v : v > 0)

\* x is within 1% relative tolerance of the fraction a / b (a, b > 0):
\* |x - a/b| <= 0.01 * a/b.
Approx(x, a, b) ==
    LET diff == 100 * (x.n * b - a * x.d)
    IN  diff <= a * x.d /\ -diff <= a * x.d

C2_OneNonZeroGivesOne ==
    (/\ op = "gini_coefficient"
     /\ Len(values) > 1
     /\ Cardinality({i \in 1..Len(values) : values[i] # 0}) = 1
     /\ NumPositive = 1) =>
        result.ok /\ RatEq(result.value, One)

\* C3 (as claimed): for a sample of n identical positive values income_shares
\* with the default percentiles reports p10 = 0.1, p50 = 0.5, p90 = 0.9,
\* top_10_share = 0.1 and bottom_50_share = 0.5, each within 1%.  Stated for
\* the n that are multiples of 10, as the test's n = 100 is, where a tenth
\* of the population is a whole number of elements.
C3_EqualSharesTrackPopulation ==
    (/\ op = "income_shares"
     /\ ~percentiles.given
     /\ values # <<>>
     /\ Len(values) % 10 = 0
     /\ \A i \in 1..Len(values) : values[i] > 0 /\ values[i] = values[1]) =>
        /\ result.ok
        /\ Approx(result.value["p10"], 1, 10)
        /\ Approx(result.value["p50"], 5, 10)
        /\ Approx(result.value["p90"], 9, 10)
        /\ Approx(result.value["top_10_share"], 1, 10)
        /\ Approx(result.value["bottom_50_share"], 5, 10)

\* C4 (as claimed): for every sample whose (positive) values are not all
\* equal, at every point of the Lorenz curve strictly between the first and
\* the last the income share is at most the population share.
C4_LorenzBelowDiagonal ==
    (/\ op = "lorenz_curve_data"
     /\ result.ok
     /\ ~(\A i \in 1..Len(PositivePart) : PositivePart[i] = PositivePart[1])) =>
        \A k \in 2..(Len(result.value.income_shares) - 1) :
            RatLeq(result.value.income_shares[k],
                   result.value.population_shares[k])

\* C5: for every accepted sample and every num_points >= 2,
\* lorenz_curve_data returns two sequences of num_points elements each, the
\* first elements both 0.0 and the last both 1.0.
C5_LorenzEndpoints ==
    (op = "lorenz_curve_data" /\ HasPositive /\ num_points >= 2) =>
        /\ result.ok
        /\ Len(result.value.population_shares) = num_points
        /\ Len(result.value.income_shares) = num_points
        /\ RatEq(result.value.population_shares[1], Zero)
        /\ RatEq(result.value.income_shares[1], Zero)
        /\ RatEq(result.value.population_shares[num_points], One)
        /\ RatEq(result.value.income_shares[num_points], One)

\* A Lorenz curve with interior points was returned for a sample of at least
\* two positive values.
C5_Witness ==
    /\ op = "lorenz_curve_data"
    /\ num_points >= 3
    /\ NumPositive >= 2
    /\ result.ok
    /\ Len(result.value.income_shares) = num_points

\* The percentiles income_shares was asked for.
Requested == IF percentiles.given THEN percentiles.list ELSE DefaultPercentiles

\* C6 (as claimed): for every list of requested percentiles income_shares
\* returns on an accepted sample, and each derived key is there exactly when
\* its input was requested: top_1_share = 1 - p99 with 99, top_10_share =
\* 1 - p90 with 90, bottom_50_share = p50 with 50.
C6_DerivedKeysFollowInputs ==
    (op = "income_shares" /\ HasPositive) =>
        /\ result.ok
        /\ ("top_1_share" \in DOMAIN result.value) = InList(99, Requested)
        /\ ("top_10_share" \in DOMAIN result.value) = InList(90, Requested)
        /\ ("bottom_50_share" \in DOMAIN result.value) = InList(50, Requested)
        /\ InList(99, Requested) =>
              RatEq(result.value["top_1_share"], OneMinus(result.value["p99"]))
        /\ InList(90, Requested) =>
              RatEq(result.value["top_10_share"], OneMinus(result.value["p90"]))
        /\ InList(50, Requested) =>
              RatEq(result.value["bottom_50_share"], result.value["p50"])

\* The six metrics, Atkinson with a valid epsilon.
MetricCalled ==
    /\ op \in {"gini_coefficient", "palma_ratio", "income_shares",
               "lorenz_curve_data", "theil_index", "atkinson_index"}
    /\ op = "atkinson_index" => epsilon > 0

\* C7: each of the six metrics fails with the empty-input error on an empty
\* sample and with the no-positive-values error on a non-empty sample none
\* of whose values is strictly positive; neither case returns a number.
C7_EmptyAndNoPositiveFail ==
    MetricCalled =>
        /\ values = <<>> => result = EmptyInputError
        /\ NonePositive => result = NoPositiveValuesError

\* A metric other than the Gini coefficient was refused a sample of
\* non-positive values.
C7_Witness ==
    /\ op = "theil_index"
    /\ NonePositive
    /\ Len(values) >= 2
    /\ result = NoPositiveValuesError

C9_IdenticalValuesGiveZero ==
    (/\ op = "gini_coefficient"
     /\ values # <<>>
     /\ \A i \in 1..Len(values) : values[i] > 0 /\ values[i] = values[1]) =>
        result = Ok(Zero)

\* The Gini coefficient of several identical positive values was computed.
C9_Witness ==
    /\ op = "gini_coefficient"
    /\ Len(values) >= 3
    /\ \A i \in 1..Len(values) : values[i] = 4
    /\ result = Ok(Zero)

\* The value palma_ratio returned is a finite float >= 0.
FiniteNonNegative(x) == x.d > 0 /\ x.n >= 0

IdenticalPositive ==
    values # <<>> /\ \A i \in 1..Len(values) : values[i] > 0 /\ values[i] = values[1]

\* C11: for every sample of n >= 10 identical positive values palma_ratio
\* returns 1.0, within 1% relative tolerance.
C11_PalmaOfEqualsIsOne ==
    (op = "palma_ratio" /\ IdenticalPositive /\ Len(values) >= MinPalmaValues) =>
        result.ok /\ result.value.d > 0 /\ Approx(result.value, 1, 1)

\* palma_ratio returned for more than 10 identical values above 1.
C11_Witness ==
    /\ op = "palma_ratio"
    /\ Len(values) > MinPalmaValues
    /\ \A i \in 1..Len(values) : values[i] = 2
    /\ result.ok

\* C12: atkinson_index called with epsilon <= 0 fails with the
\* invalid-parameter error for every non-empty sample, one without any
\* strictly positive value included, and never returns a number.
C12_NonPositiveEpsilonFails ==
    (op = "atkinson_index" /\ epsilon <= 0 /\ values # <<>>) =>
        result = InvalidParameterError

\* atkinson_index refused epsilon = 0 on a sample without positive values.
C12_Witness ==
    /\ op = "atkinson_index"
    /\ epsilon = 0
    /\ NonePositive
    /\ result = InvalidParameterError

\* The keys of a complete result of calculate_all_metrics.
AllMetricKeys ==
    {"gini", "palma_ratio", "theil_index", "atkinson_index",
     "p1", "p10", "p50", "p90", "p99",
     "top_1_share", "top_10_share", "bottom_50_share"}

\* C13: calculate_all_metrics never propagates an exception and is
\* all-or-nothing: it returns the empty mapping, and does so whenever a
\* single metric fails (an empty sample, fewer than 10 positive values), or
\* a mapping with every metric and income-share key; never a partial one.
C13_AllOrNothing ==
    op = "calculate_all_metrics" =>
        /\ result.ok
        /\ DOMAIN result.value = {} \/ AllMetricKeys \subseteq DOMAIN result.value
        /\ NumPositive < MinPalmaValues => DOMAIN result.value = {}
        /\ NumPositive >= MinPalmaValues => DOMAIN result.value # {}

\* calculate_all_metrics returned the complete mapping for a sample that
\* also holds a non-positive value.
C13_Witness ==
    /\ op = "calculate_all_metrics"
    /\ NumPositive >= MinPalmaValues
    /\ Len(values) > NumPositive
    /\ result.ok
    /\ AllMetricKeys \subseteq DOMAIN result.value

\* The rows of the table are in ascending order of (country_code, year).
SortedByCountryYear(rows) ==
    \A i \in 1..(Len(rows) - 1) : CountryYearLeq(rows[i], rows[i + 1])

\* C14: the table returned by merge_data_sources is sorted by
\* (country_code, year) for every dictionary of source tables.
C14_MergedTableSorted ==
    fn = "merge_data_sources" => SortedByCountryYear(ret.rows)

\* The cleaned, non-empty tables of the dictionary, in its order, each
\* with the name of its source.
CleanedArg == CleanedSources(arg)

\* The key of a row in the merged table.
MergeKey(r) == KeyOf(r, KeyColumns(ret))

\* The key of a row of one cleaned source, its missing gini cell being NaN.
SourceKey(r) ==
    [c \in KeyColumns(ret) |-> IF c \in DOMAIN r THEN r[c] ELSE NaN]

\* The cleaned source at position i holds a row with key k.
SourceHasKey(i, k) ==
    \E j \in 1..Len(CleanedArg[i].rows) : SourceKey(CleanedArg[i].rows[j]) = k

\* C15: merge_data_sources keeps exactly one row per (country_code, year,
\* gini) key, per (country_code, year) without a gini column, and the
\* surviving row comes from the first source of the dictionary that holds
\* the key and is tagged with that source's name.
C15_FirstSourceWins ==
    (fn = "merge_data_sources" /\ CleanedArg # <<>>) =>
        /\ \A i, j \in 1..Len(ret.rows) :
               MergeKey(ret.rows[i]) = MergeKey(ret.rows[j]) => i = j
        /\ \A i \in 1..Len(CleanedArg) : \A j \in 1..Len(CleanedArg[i].rows) :
               \E k \in 1..Len(ret.rows) :
                   MergeKey(ret.rows[k]) = SourceKey(CleanedArg[i].rows[j])
        /\ \A k \in 1..Len(ret.rows) :
               \E i \in 1..Len(CleanedArg) :
                   /\ SourceHasKey(i, MergeKey(ret.rows[k]))
                   /\ \A h \in 1..(i - 1) : ~SourceHasKey(h, MergeKey(ret.rows[k]))
                   /\ ret.rows[k].source = CleanedArg[i].rows[1].source

\* Two sources hold the same key, written 'US' in one and 'USA' in the
\* other, and the merged table has the row once.
C15_Witness ==
    /\ fn = "merge_data_sources"
    /\ Len(arg) = 2
    /\ \E i \in 1..Len(arg[1].df.rows), j \in 1..Len(arg[2].df.rows) :
           /\ arg[1].df.rows[i].country_code = Str("US")
           /\ arg[2].df.rows[j].country_code = Str("USA")
           /\ arg[1].df.rows[i].year = arg[2].df.rows[j].year
           /\ "gini" \in arg[1].df.columns /\ "gini" \in arg[2].df.columns
           /\ arg[1].df.rows[i].gini = arg[2].df.rows[j].gini
    /\ Len(ret.rows) = 1
    /\ ret.rows[1].source = Str(SourceNames[1])

\* The entry has a date and a value, its year is in [1960, 2030] and its
\* value in [0, 100].
ValidEntry(entry) ==
    /\ ~IsNone(entry.date)
    /\ ~IsNone(entry.value)
    /\ entry.date.s \in DOMAIN IntTexts
    /\ MinYear <= IntTexts[entry.date.s] /\ IntTexts[entry.date.s] <= MaxYear
    /\ RatLeq(Zero, entry.value) /\ RatLeq(entry.value, Rat(PercentScale, 1))

\* 100*v for a raw value v in [0, 1], v itself for one in (1, 100], to two
\* decimals.
ScaledOnce(v) ==
    Round2(IF RatLeq(v, Rat(UnitScale, 1)) THEN Times100(v) ELSE v)

\* C16: in the pipeline of WorldBankClient.get_gini_data every raw value v
\* in [0, 1] comes out as 100*v and every raw value in (1, 100] comes out
\* unchanged, to two decimals, and clean_gini_data applied to the cleaned
\* table changes no value.
C16_ScalingIdempotent ==
    fn = "get_gini_data" =>
        /\ \A k \in 1..Len(ret.rows) :
               \E i \in 1..Len(arg) :
                   /\ ValidEntry(arg[i])
                   /\ IntTexts[arg[i].date.s] = ret.rows[k].year
                   /\ RatEq(ret.rows[k].value, ScaledOnce(arg[i].value))
        /\ LET again == clean_gini_data(ret).rows
           IN  /\ Len(again) = Len(ret.rows)
               /\ \A k \in 1..Len(ret.rows) : RatEq(again[k].value, ret.rows[k].value)

\* The years of the valid entries, in the order of the response.
RECURSIVE ValidYears(_)
ValidYears(entries) ==
    IF entries = <<>> THEN <<>>
    ELSE IF ValidEntry(Head(entries))
    THEN <<[year |-> IntTexts[Head(entries).date.s]]>> \o ValidYears(Tail(entries))
    ELSE ValidYears(Tail(entries))

\* C17: convert_api_response_to_dataframe and format_gini_data output one
\* row for each entry with a date and a value, a year in [1960, 2030] and
\* a value in [0, 100], skip every other entry, and sort the rows by year
\* ascending.
C17_AdaptersKeepValidEntries ==
    fn \in {"convert_api_response_to_dataframe", "format_gini_data"} =>
        [k \in 1..Len(ret.rows) |-> [year |-> ret.rows[k].year]]
            = SortByYear(ValidYears(arg))

\* Linear interpolation that fills a gap only between two values.
InterpolateInside(vs) ==
    [i \in 1..Len(vs) |->
        IF ~IsNaN(vs[i]) THEN vs[i]
        ELSE IF ValidBefore(vs, i) = {} \/ ValidAfter(vs, i) = {} THEN NaN
        ELSE LET p == Max(ValidBefore(vs, i))
                 q == Min(ValidAfter(vs, i))
             IN  Lerp(vs[p], vs[q], i - p, q - p)]

\* C20: with 'interpolate', handle_missing_values replaces a missing value
\* between two valid values by their linear interpolation and drops every
\* row whose value is missing before the first or after the last valid
\* value; the result has no missing value.
C20_InterpolateDropsEnds ==
    (fn = "handle_missing_values" /\ ret.method = "interpolate") =>
        /\ ret.out.ok
        /\ LET expected == DropNa(WithValues(arg, InterpolateInside(ValueColumn(arg))))
               rows == ret.out.value.rows
           IN  /\ Len(rows) = Len(expected)
               /\ \A k \in 1..Len(rows) :
                      /\ rows[k].year = expected[k].year
                      /\ ~IsNaN(rows[k].value)
                      /\ RatEq(rows[k].value, expected[k].value)

\* The metric columns of the validated table.
UnitColumns == {"gini", "top_10_share", "bottom_50_share", "top_1_share"} \cap ret.columns

\* No gini or share of the row is outside [0, 1] and its palma_ratio is
\* not below 0.
RowInRange(r) ==
    /\ \A c \in UnitColumns : ~OutsideUnitRange(r[c])
    /\ "palma_ratio" \in ret.columns =>
           ~(~IsNaN(r.palma_ratio) /\ RatLess(r.palma_ratio, Zero))

\* Every metric of the row is present and in range.
RowPresentInRange(r) ==
    /\ \A c \in UnitColumns : InUnitRange(r[c])
    /\ "palma_ratio" \in ret.columns =>
           (~IsNaN(r.palma_ratio) /\ RatLeq(Zero, r.palma_ratio))

\* C18: validate_inequality_metrics returns a table in which no row has a
\* gini or share outside [0, 1] or a palma_ratio below 0, and which keeps
\* every input row whose metrics are all present and in range, in the
\* order of the input; it returns a table for out-of-range data.
C18_ValidatedInRange ==
    fn = "validate_inequality_metrics" =>
        /\ ret.columns = DOMAIN arg[1] \ {"index"}
        /\ \A k \in 1..Len(ret.rows) : RowInRange(ret.rows[k])
        /\ \A k \in 1..Len(ret.rows) : ret.rows[k] = arg[ret.rows[k]["index"] + 1]
        /\ \A k \in 1..(Len(ret.rows) - 1) : ret.rows[k]["index"] < ret.rows[k + 1]["index"]
        /\ \A i \in 1..Len(arg) :
               RowPresentInRange(arg[i]) => \E k \in 1..Len(ret.rows) : ret.rows[k] = arg[i]

\* A table with a row out of range, a row with a missing metric and a row
\* in range was validated: the first two are gone, the third is kept.
C18_Witness ==
    /\ fn = "validate_inequality_metrics"
    /\ Len(arg) = 3
    /\ \E i, j, k \in 1..3 :
           /\ ~RowInRange(arg[i])
           /\ RowInRange(arg[j]) /\ ~RowPresentInRange(arg[j])
           /\ RowPresentInRange(arg[k])
           /\ ret.rows = <<arg[k]>>

\* C19: normalize_country_codes replaces every value that is a key of the
\* alias table by its ISO-3 code, returns every value that is not a key
\* unchanged, and applied twice gives the same table as applied once.
C19_NormalizeAliasesOnly ==
    (fn = "normalize_country_codes" /\ ret.country_column = "country_code") =>
        /\ Len(ret.df.rows) = Len(arg)
        /\ \A i \in 1..Len(arg) :
               LET x == arg[i].country_code
                   y == ret.df.rows[i].country_code
               IN  IF x.py = "str" /\ ~x.ws /\ x.s \in MappingKeys
                   THEN y = Str(MappingGet(x.s, x.s))
                   ELSE y = x
        /\ normalize_country_codes(ret.df, "country_code") = ret.df

\* C21: after clean_gini_data no two rows of the output have the same year
\* and the same upper-cased country_code.
C21_CountryYearUnique ==
    fn = "clean_gini_data" =>
        \A i, j \in 1..Len(ret.rows) :
            (/\ ret.rows[i].year = ret.rows[j].year
             /\ Upper(ret.rows[i].country_code) = Upper(ret.rows[j].country_code))
                => i = j

\* The gini and share columns of the augmented table.
UnitColumnsDerived ==
    {"gini", "top_10_share", "bottom_50_share", "top_1_share", "middle_40_share"}
        \cap ret.columns

\* C22: in a table that passed validate_inequality_metrics and then
\* add_derived_metrics every present gini and share, the derived
\* middle_40_share included, lies in [0, 1] and every present palma_ratio
\* is >= 0.
C22_DerivedInRange ==
    fn = "add_derived_metrics" =>
        \A k \in 1..Len(ret.rows) :
            /\ \A c \in UnitColumnsDerived : ~OutsideUnitRange(ret.rows[k][c])
            /\ "palma_ratio" \in ret.columns =>
                   (IsNaN(ret.rows[k].palma_ratio) \/ RatLeq(Zero, ret.rows[k].palma_ratio))

\* C23: fetch_all_sources_data never raises; it returns a mapping with
\* exactly the keys world_bank, oecd, wid and eurostat in which each source
\* that raised DataFetchError maps to an empty table, and the Eurostat
\* source is asked only for the countries of eu_countries, the entry being
\* an empty table otherwise.
C23_FetchAllNeverRaises ==
    /\ fn # "raised"
    /\ fn = "fetch_all_sources_data" =>
           /\ DOMAIN ret.results = {"world_bank", "oecd", "wid", "eurostat"}
           /\ \A source \in ret.failed : ret.results[source] = EmptyFrame
           /\ "eurostat" \in ret.asked => Upper(arg.country_code) \in eu_countries
           /\ Upper(arg.country_code) \notin eu_countries =>
                  ret.results["eurostat"] = EmptyFrame

\* fetch_all_sources_data returned for a lower-case EU country after two
\* sources failed and Eurostat delivered.
C23_Witness ==
    /\ fn = "fetch_all_sources_data"
    /\ arg.country_code = "deu"
    /\ ret.failed = {"world_bank", "wid"}
    /\ ret.asked = {"world_bank", "oecd", "wid", "eurostat"}
    /\ ret.results["eurostat"] # EmptyFrame

\* The entry of the call's own key was younger than cache_ttl when the
\* call was made.
HadFreshEntry == IsCacheValid(ret.before, arg.now, ret.key)

\* C24: a get_countries or get_gini_data call whose cache entry is younger
\* than cache_ttl returns the cached value without issuing an HTTP
\* request, an entry of age cache_ttl or more is never returned, and a
\* call that raises leaves the entry of its own key unchanged.
C24_CacheBeforeNetwork ==
    fn \in {"get_countries", "get_gini_data"} =>
        /\ HadFreshEntry =>
               /\ ret.outcome = Ok(ret.before[ret.key].data)
               /\ ret.requests = <<>>
        /\ (ret.outcome.ok /\ ~HadFreshEntry) => ret.outcome.value.fetched = arg.now
        /\ ~ret.outcome.ok =>
               /\ ret.key \in DOMAIN arg.cache <=> ret.key \in DOMAIN ret.before
               /\ ret.key \in DOMAIN arg.cache => arg.cache[ret.key] = ret.before[ret.key]

\* C25: _make_request makes at most max_retries attempts, sleeps
\* retry_delay * 2^attempt between them, retries only after a transport
\* failure, and raises an exception of the client's own classes on the
\* attempt where it occurs, as it was raised.
C25_RetriesOnlyTransport ==
    fn \in {"_make_request", "return", "raise"} =>
        /\ Len(arg.events) <= max_retries
        /\ arg.slept = [a \in 1..arg.attempt |-> retry_delay * 2 ^ (a - 1)]
        /\ \A i \in 1..Len(arg.events) :
               i <= arg.attempt => arg.events[i] \in TransportEvents
        /\ fn = "raise" =>
               LET tried == TryBlock(arg.events[Len(arg.events)]) IN
               tried.exc \in {"APIRateLimitError", "APIConnectionError",
                              "DataNotAvailableError", "WorldBankAPIError"}
                   => ret = tried

\* C26: whatever was fetched before, a fetch_world_bank_gini call that
\* returns gives every observation of the source for the country within
\* start_year..end_year, as a call with an empty data directory does.
C26_FetchIndependentOfHistory ==
    (fn = "fetch_world_bank_gini" /\ ret.outcome.ok) =>
        ret.outcome.value.rows =
            fetch_world_bank_gini(EmptyDict, ret.country_code, ret.start_year,
                                  ret.end_year, TRUE).outcome.value.rows

\* The keys of the alias table that are not the code they stand for.
Aliases == {p[1] : p \in {q \in country_mapping : q[1] # q[2]}}

\* C27: no country_code of the output of clean_inequality_data is an alias
\* of the alias table, whichever spelling the header of the country column
\* had.
C27_NoAliasLeft ==
    fn = "clean_inequality_data" =>
        /\ "country_code" \in ret.columns
        /\ \A i \in 1..Len(ret.rows) : ret.rows[i].country_code.s \notin Aliases

\* C29: standardize_column_names gives the columns of a table with
\* pairwise different headers pairwise different names.
C29_NamesStayDistinct ==
    fn = "standardize_column_names" =>
        \A i, j \in 1..Len(ret) : i # j => ret[i] # ret[j]

\* C28: validate_inequality_metrics keeps a row by that row alone: a row
\* whose validated columns are each missing or in range is in the output
\* whatever the other rows hold.
C28_KeptByRowAlone ==
    fn = "validate_inequality_metrics" =>
        \A i \in 1..Len(arg) :
            RowInRange(arg[i]) => \E k \in 1..Len(ret.rows) : ret.rows[k] = arg[i]

\* C30: for all integers start_year and end_year, validate_year_range
\* returns (start, end) with 1960 <= start <= end <= the current year.
C30_YearRangeWithinBounds ==
    fn = "validate_year_range" =>
        /\ EarliestYear <= ret.range[1]
        /\ ret.range[1] <= ret.range[2]
        /\ ret.range[2] <= ret.current_year

====
